---- MODULE Spec2Model ----
(***************************************************************************)
(* Model of easybuild/tools/github.py: the repository cache                *)
(* (download_repo), the pull-request content resolver                      *)
(* (fetch_easyconfigs_from_pr) and the publication entry points.           *)
(***************************************************************************)
EXTENDS Integers, Sequences, FiniteSets, TLC

\* ------------------------------------------------------------------ bounds
MaxCalls == 2

\* --------------------------------------------------------- program constants
GITHUB_EB_MAIN == "easybuilders"
GITHUB_EASYCONFIGS_REPO == "easybuild-easyconfigs"
GITHUB_DEVELOP_BRANCH == "develop"
GITHUB_STATE_CLOSED == "closed"
GITHUB_PR_STATE_OPEN == "open"

\* ------------------------------------------------------------- text values
\* A text is a sequence of characters; python's str.rstrip() strips whitespace.
Whitespace == {" ", "\n"}

\* Commit identifiers as the forge reports them (no whitespace inside).
Shas == {<<"a">>, <<"a", "b">>}
NoSha == <<>>

\* Contents a 'latest-sha' file can hold when a call finds it.
MarkerTexts ==
    { <<>>, <<"a">>, <<"a", "b">>, <<"b">>,
      <<"a", "\n">>, <<"a", " ">>, <<"a", " ", "\n">>, <<"a", "b", "\n">>,
      <<"a", "\n", "a", "b">>, <<" ", "a">>, <<"\n", "a">> }
NoFile == <<"ENOENT">>

\* txt.split('\n')[0]
RECURSIVE SplitFirstLine(_)
SplitFirstLine(t) ==
    IF t = <<>> \/ Head(t) = "\n" THEN <<>>
    ELSE <<Head(t)>> \o SplitFirstLine(Tail(t))

\* txt.rstrip()
RECURSIVE RStrip(_)
RStrip(t) ==
    IF t = <<>> THEN <<>>
    ELSE IF t[Len(t)] \in Whitespace THEN RStrip(SubSeq(t, 1, Len(t) - 1))
    ELSE t

\* read_file(latest_sha_path).split('\n')[0].rstrip()
ReadMarkerNoStrip(t) == SplitFirstLine(t)
ReadMarker(t) == RStrip(SplitFirstLine(t))

\* ------------------------------------------------------- files of the repo
\* A path inside the repository is its sequence of components.
EcToy == <<"easybuild", "easyconfigs", "t", "toy", "toy-1.0.eb">>
EcGcc == <<"easybuild", "easyconfigs", "g", "gcc", "gcc-4.9.eb">>
EcArchToy == <<"easybuild", "easyconfigs", "__archive__", "t", "toy", "toy-1.0.eb">>
TestFile == <<"test", "easyconfigs", "suite.py">>
SetupFile == <<"setup.py">>
FileOrder == <<EcToy, EcGcc, EcArchToy, TestFile, SetupFile>>
Files == {FileOrder[i] : i \in 1..Len(FileOrder)}

\* The tree of each commit of the remote repository.
TreeOf(sha) ==
    IF sha = <<"a">> THEN {EcGcc, SetupFile}
    ELSE IF sha = <<"a", "b">> THEN {EcGcc, EcToy, SetupFile}
    ELSE {}

Branches == {"develop", "master"}
CacheBranches == {"master"}

\* ------------------------------------------------------------------- paths
ArgRoot == <<"arg", 0>>
NoPathArg == <<"none", 0>>
TmpRoot(n) == <<"tmp", n>>
Roots == {ArgRoot} \cup {TmpRoot(n) : n \in 1..(MaxCalls + 1)}
Keys == Roots \X Branches

\* os.path.join(os.path.join(path, account), '%s-%s' % (repo, branch))
ExpectedPathAnyAccount(root, account, repo, branch) == <<root, "", <<repo, branch>>>>
ExpectedPath(root, account, repo, branch) == <<root, account, <<repo, branch>>>>
NoPath == <<>>

NoSnapshot == [tree |-> NoSha, files |-> {}, marker |-> NoFile, archive |-> NoSha]

Procs == {1, 2}

VARIABLES
    remoteTip,   \* branch -> commit at the tip of the branch on the forge
    disk,        \* (root, branch) -> snapshot directory and archive file
    dirs,        \* roots whose account subdirectory exists
    call,        \* per caller: the download_repo invocation in progress
    log,         \* completed download_repo invocations, in order of return
    nCalls,      \* download_repo invocations started (also numbers temp dirs)
    advances,    \* how often a remote branch tip has moved
    pr,          \* the pull request as the forge reports it
    fe,          \* the fetch_easyconfigs_from_pr invocation in progress
    dest,        \* what is under the destination path of that invocation
    opts,        \* build options: dry_run, extended_dry_run
    op,          \* the publication entry point in progress
    forge,       \* kinds of state-mutating calls sent to the forge so far
    wc,          \* the temporary git working copy of the entry point
    nOps         \* entry points that have returned

cacheVars == <<remoteTip, disk, dirs, call, log, nCalls, advances>>
prVars == <<pr, fe, dest>>
facadeVars == <<opts, op, forge, wc, nOps>>
nonCacheVars == <<prVars, facadeVars>>
vars == <<cacheVars, prVars, facadeVars>>

Idle == [pc |-> "idle", root |-> NoPathArg, branch |-> "", sha |-> NoSha,
         seen |-> NoFile, hit |-> FALSE, downloaded |-> FALSE,
         extracted |-> FALSE, unpacked |-> FALSE, wrote |-> FALSE,
         advStart |-> 0,
         disk0 |-> <<>>, dirs0 |-> {}]

\* ------------------------------------------------------------ download_repo
\* lines 330-338: path is None -> tempfile.mkdtemp(); mkdir(path/account)
BeginDownloadRepo(p, pathArg, branch) ==
    /\ call[p].pc = "idle"
    /\ nCalls < MaxCalls
    /\ LET root == IF pathArg = NoPathArg THEN TmpRoot(nCalls + 1) ELSE pathArg
       IN /\ call' = [call EXCEPT ![p] =
                        [Idle EXCEPT !.pc = "lookup", !.root = root,
                                     !.branch = branch, !.advStart = advances,
                                     !.disk0 = disk, !.dirs0 = dirs]]
          /\ dirs' = dirs \cup {root}
    /\ nCalls' = nCalls + 1

\* return / raise: the invocation ends and is recorded
EndDownloadRepo(p, c, ok, newDisk) ==
    /\ log' = Append(log,
                [proc |-> p, root |-> c.root, branch |-> c.branch, sha |-> c.sha,
                 seen |-> c.seen, hit |-> c.hit, downloaded |-> c.downloaded,
                 extracted |-> c.extracted, unpacked |-> c.unpacked, wrote |-> c.wrote, ok |-> ok,
                 path |-> IF ok
                          THEN ExpectedPath(c.root, GITHUB_EB_MAIN,
                                            GITHUB_EASYCONFIGS_REPO, c.branch)
                          ELSE NoPath,
                 advStart |-> c.advStart, advEnd |-> advances,
                 after |-> newDisk[<<c.root, c.branch>>],
                 untouched |-> (newDisk = c.disk0 /\ dirs = c.dirs0)])
    /\ call' = [call EXCEPT ![p] = Idle]

download_repo(p) ==
    \E pathArg \in {ArgRoot, NoPathArg}, branch \in CacheBranches :
        /\ BeginDownloadRepo(p, pathArg, branch)
        /\ UNCHANGED <<remoteTip, disk, log, advances, nonCacheVars>>

\* line 340, fetch_latest_commit_sha (lines 290-318): the tip of the branch,
\* or an error when the request fails or the branch is not listed
fetch_latest_commit_sha(p) ==
    /\ call[p].pc = "lookup"
    /\ \/ /\ call' = [call EXCEPT ![p].pc = "check",
                                  ![p].sha = remoteTip[call[p].branch]]
          /\ UNCHANGED log
       \/ EndDownloadRepo(p, call[p], FALSE, disk)
    /\ UNCHANGED <<remoteTip, disk, dirs, nCalls, advances, nonCacheVars>>

\* lines 345-350: reuse the snapshot when 'latest-sha' names the fetched tip
MarkerUpToDateNoStrip(marker, sha) == marker # NoFile /\ ReadMarkerNoStrip(marker) = sha
MarkerUpToDateAlways(marker, sha) == marker # NoFile
MarkerUpToDate(marker, sha) == marker # NoFile /\ ReadMarker(marker) = sha

check_latest_sha(p) ==
    /\ call[p].pc = "check"
    /\ LET c == call[p]
           marker == disk[<<c.root, c.branch>>].marker
           c1 == [c EXCEPT !.seen = marker]
       IN IF MarkerUpToDate(marker, c.sha)
          THEN EndDownloadRepo(p, [c1 EXCEPT !.hit = TRUE], TRUE, disk)
          ELSE /\ call' = [call EXCEPT ![p] = [c1 EXCEPT !.pc = "download"]]
               /\ UNCHANGED log
    /\ UNCHANGED <<remoteTip, disk, dirs, nCalls, advances, nonCacheVars>>

\* lines 352-357: download_file(base_name, url, target_path, forced=True)
download_archiveOneAtATime(p) ==
    /\ call[p].pc = "download"
    /\ \A q \in Procs \ {p} : call[q].pc \notin {"download", "extract", "write"}
    /\ LET c == call[p]
           k == <<c.root, c.branch>>
       IN \/ /\ disk' = [disk EXCEPT ![k].archive = remoteTip[c.branch]]
             /\ call' = [call EXCEPT ![p].pc = "extract", ![p].downloaded = TRUE]
             /\ UNCHANGED log
          \/ /\ UNCHANGED disk
             /\ EndDownloadRepo(p, [c EXCEPT !.downloaded = TRUE], FALSE, disk)
    /\ UNCHANGED <<remoteTip, dirs, nCalls, advances, nonCacheVars>>
download_archive(p) ==
    /\ call[p].pc = "download"
    /\ LET c == call[p]
           k == <<c.root, c.branch>>
       IN \/ /\ disk' = [disk EXCEPT ![k].archive = remoteTip[c.branch]]
             /\ call' = [call EXCEPT ![p].pc = "extract", ![p].downloaded = TRUE]
             /\ UNCHANGED log
          \/ /\ UNCHANGED disk
             /\ EndDownloadRepo(p, [c EXCEPT !.downloaded = TRUE], FALSE, disk)
    /\ UNCHANGED <<remoteTip, dirs, nCalls, advances, nonCacheVars>>

\* lines 359-363: extract_file(target_path, path, forced=True) unpacks over
\* whatever is there; the expected directory must exist afterwards
ExtractOverKeepsTree(snap) == [snap EXCEPT !.files = snap.files \cup TreeOf(snap.archive)]
ExtractOver(snap) ==
    [snap EXCEPT !.tree = snap.archive,
                 !.files = snap.files \cup TreeOf(snap.archive)]

extract_archive(p) ==
    /\ call[p].pc = "extract"
    /\ LET c == call[p]
           k == <<c.root, c.branch>>
       IN \/ /\ disk' = [disk EXCEPT ![k] = ExtractOver(disk[k])]
             /\ call' = [call EXCEPT ![p].pc = "write", ![p].extracted = TRUE,
                                     ![p].unpacked = TRUE]
             /\ UNCHANGED log
          \/ \* extract_file raises
             /\ UNCHANGED disk
             /\ EndDownloadRepo(p, c, FALSE, disk)
          \/ \* the archive does not unpack into <repo>-<branch>: os.path.isdir
             \* holds only if a directory of that name was there before
             /\ UNCHANGED disk
             /\ IF disk[k].tree = NoSha
                THEN EndDownloadRepo(p, [c EXCEPT !.extracted = TRUE], FALSE, disk)
                ELSE /\ call' = [call EXCEPT ![p].pc = "write", ![p].extracted = TRUE]
                     /\ UNCHANGED log
    /\ UNCHANGED <<remoteTip, dirs, nCalls, advances, nonCacheVars>>

\* lines 365-368: write_file(latest_sha_path, latest_commit_sha, forced=True)
MarkerToWriteStale(c, snap) == snap.marker
MarkerToWrite(c, snap) == c.sha

write_latest_sha(p) ==
    /\ call[p].pc = "write"
    /\ LET c == call[p]
           k == <<c.root, c.branch>>
           newDisk == [disk EXCEPT ![k].marker = MarkerToWrite(c, disk[k])]
       IN /\ disk' = newDisk
          /\ EndDownloadRepo(p, [c EXCEPT !.wrote = TRUE], TRUE, newDisk)
    /\ UNCHANGED <<remoteTip, dirs, nCalls, advances, nonCacheVars>>

\* the forge: a branch tip moves to another commit
MaxAdvances == 1
RemoteAdvance(bs) ==
    /\ advances < MaxAdvances
    /\ \E b \in bs, s \in Shas :
          /\ s # remoteTip[b]
          /\ remoteTip' = [remoteTip EXCEPT ![b] = s]
    /\ advances' = advances + 1
    /\ UNCHANGED <<disk, dirs, call, log, nCalls, nonCacheVars>>

\* ------------------------------------------------ fetch_easyconfigs_from_pr
MaxDiffFiles == 3
HeadSha == <<"h">>
DestRoot == <<"dest", 0>>
NoList == <<"no list">>

\* A diff names files, some of them as deleted.
Diffs ==
    {d \in [files : SUBSET Files, deleted : SUBSET Files] :
        d.deleted \subseteq d.files /\ Cardinality(d.files) <= MaxDiffFiles}

\* pr_data as returned by the forge for one pull request
PullRequests ==
    [merged : BOOLEAN, state : {GITHUB_PR_STATE_OPEN, GITHUB_STATE_CLOSED},
     base : Branches, head : {HeadSha}, diff : Diffs]

\* det_patched_files(txt=diff_txt, omit_ab_prefix=True, github=True,
\* filter_deleted=True): the files the diff names, without the deleted ones
DetPatchedFiles(d) == SelectSeq(FileOrder, LAMBDA f : f \in d.files \ d.deleted)

\* os.path.sep.join(patched_file.split(os.path.sep)[-3:])
LastThreeKeepsAll(f) == f
LastThree(f) == IF Len(f) <= 3 THEN f ELSE SubSeq(f, Len(f) - 2, Len(f))

\* f.startswith('test/')
StartsWithTestNever(f) == FALSE
StartsWithTest(f) == Len(f) >= 2 /\ f[1] = "test"

EmptyDest == [files |-> {}, links |-> {}]
FeIdle == [pc |-> "idle", data |-> <<>>, dl |-> 0, repo |-> NoPath,
           patched |-> <<>>, applyTried |-> FALSE, applyOk |-> FALSE,
           fetched |-> {}, final |-> NoPath, warned |-> FALSE,
           ok |-> FALSE, err |-> "", ec_files |-> NoList]

\* ------------------------------------------------------ publication facade
NoUser == "None"
NoWorkingCopy == [made |-> FALSE, remotes |-> {}, heads |-> {}, cur |-> "",
                  base |-> {}, work |-> {}, index |-> {}, commits |-> <<>>, seed |-> "",
                  hist |-> {}]
NoPaths == [easyconfigs |-> {}, files_to_delete |-> {}, patch_files |-> {}]
NoData == [none |-> TRUE]
OpIdle == [name |-> "", pc |-> "idle", ok |-> FALSE, err |-> "", user |-> NoUser,
           force |-> FALSE, data |-> NoData, msg |-> "", title |-> "", paths |-> NoPaths,
           commit_msg |-> "", attempt |-> 0, labels |-> {}, all_new |-> FALSE,
           deleted |-> {}, push |-> "", git_only |-> FALSE, attempts |-> <<>>,
           account |-> "target", pushed |-> "", report |-> <<>>, steps |-> <<>>]
FacadeIdle ==
    /\ opts = [dry_run |-> FALSE, extended_dry_run |-> FALSE]
    /\ op = OpIdle
    /\ forge = {}
    /\ wc = NoWorkingCopy
    /\ nOps = 0

InitCache ==
    /\ remoteTip \in [Branches -> Shas]
    /\ \A b \in Branches \ CacheBranches : remoteTip[b] = <<"a">>
    /\ \E m \in MarkerTexts \cup {NoFile}, s \in {<<"a">>}, b \in CacheBranches :
          disk = [k \in Keys |->
                    IF k = <<ArgRoot, b>> /\ m # NoFile
                    THEN [tree |-> s, files |-> TreeOf(s), marker |-> m, archive |-> s]
                    ELSE NoSnapshot]
    /\ dirs = {k[1] : k \in {kk \in Keys : disk[kk] # NoSnapshot}}
    /\ call = [p \in Procs |-> Idle]
    /\ log = <<>>
    /\ nCalls = 0
    /\ advances = 0
    /\ pr \in {p \in PullRequests : p.diff.files = {} /\ p.base = "master"
                                     /\ ~p.merged /\ p.state = GITHUB_PR_STATE_OPEN}
    /\ fe = FeIdle
    /\ dest = EmptyDest
    /\ FacadeIdle

NextCache ==
    \/ download_repo(1)
    \/ fetch_latest_commit_sha(1)
    \/ check_latest_sha(1)
    \/ download_archive(1)
    \/ extract_archive(1)
    \/ write_latest_sha(1)
    \/ RemoteAdvance(CacheBranches)

SpecCache == InitCache /\ [][NextCache]_vars

\* Two invocations of download_repo running at the same time: nothing in
\* the function orders the steps of one with respect to the other.
NextRace ==
    \E p \in Procs :
        \/ download_repo(p)
        \/ fetch_latest_commit_sha(p)
        \/ check_latest_sha(p)
        \/ download_archive(p)
        \/ extract_archive(p)
        \/ write_latest_sha(p)

SpecRace == InitCache /\ [][NextRace]_vars

\* ---------------------------------------------------- repository cache claims
Successive(i) == i \in 1..(Len(log) - 1)
SameTriple(x, y) == x.branch = y.branch
TipStable(x, y) == x.advStart = y.advEnd
Downloads(x) == IF x.downloaded THEN 1 ELSE 0
IsTmp(root) == root[1] = "tmp"

\* C1 (as stated): two successive download_repo calls for the same (account,
\* repo, branch) between which the remote tip does not change perform exactly
\* one archive download in total and return the identical path.
C1_ExactlyOneDownload ==
    \A i \in 1..(Len(log) - 1) :
        LET x == log[i]
            y == log[i + 1]
        IN (SameTriple(x, y) /\ x.ok /\ y.ok /\ TipStable(x, y))
               => (Downloads(x) + Downloads(y) = 1 /\ x.path = y.path)

\* C1 (amended): two successive download_repo calls that both return, for the
\* same triple and the same explicitly given destination root, with the remote
\* tip unchanged from the start of the first to the end of the second: the
\* second call reuses the snapshot without a download and both return the same
\* path; across both there is one download when the first call found no
\* up-to-date snapshot and none when it found one. A call without a path
\* argument works in a fresh temporary root and always downloads.
C1_IdempotentOnSameRoot ==
    /\ \A i \in 1..(Len(log) - 1) :
          LET x == log[i]
              y == log[i + 1]
          IN (SameTriple(x, y) /\ x.root = y.root /\ x.ok /\ y.ok /\ TipStable(x, y))
                 => /\ y.hit /\ ~y.downloaded
                    /\ x.path = y.path
                    /\ Downloads(x) + Downloads(y) = (IF x.hit THEN 0 ELSE 1)
    /\ \A i \in 1..Len(log) :
          (IsTmp(log[i].root) /\ log[i].sha # NoSha)
              => (~log[i].hit /\ log[i].downloaded)
    /\ \A i, j \in 1..Len(log) :
          (i # j /\ IsTmp(log[i].root) /\ log[i].ok /\ log[j].ok)
              => log[i].path # log[j].path

C1_Witness ==
    /\ Len(log) = 2
    /\ log[1].ok /\ log[2].ok
    /\ log[1].root = ArgRoot /\ log[2].root = ArgRoot
    /\ TipStable(log[1], log[2])
    /\ log[1].downloaded /\ log[2].hit

\* C2: when the tip fetched by a download_repo call differs from the tip
\* fetched by the preceding (returned) call on the same destination root and
\* branch, the later call never reuses the snapshot: it downloads the archive,
\* and when it returns it has run the extraction in the snapshot's directory
\* (the tree there is the downloaded one when the archive unpacks into the
\* expected directory) and the marker file holds the newly fetched tip.
C2_Invalidation ==
    \A i \in 1..(Len(log) - 1) :
        LET x == log[i]
            y == log[i + 1]
        IN (SameTriple(x, y) /\ x.root = y.root /\ x.ok
                /\ y.sha # NoSha /\ y.sha # x.sha)
               => /\ ~y.hit /\ y.downloaded
                  /\ y.ok => /\ y.extracted /\ y.wrote
                             /\ y.after.marker = y.sha
                             /\ y.unpacked => y.after.tree = y.after.archive

C2_Witness ==
    /\ Len(log) = 2
    /\ log[1].ok /\ log[2].ok
    /\ log[1].root = log[2].root
    /\ log[1].after.marker = log[1].sha
    /\ log[2].sha # log[1].sha
    /\ log[2].downloaded /\ log[2].unpacked /\ log[2].after.marker = log[2].sha

\* s is the first line of t with its trailing whitespace removed
IsTrimmedFirstLine(s, t) ==
    \E n \in 0..Len(t) :
        /\ \A q \in 1..n : t[q] # "\n"
        /\ n = Len(t) \/ t[n + 1] = "\n"
        /\ \E k \in 0..n :
              /\ SubSeq(t, 1, k) = s
              /\ \A q \in (k + 1)..n : t[q] \in Whitespace
              /\ k = 0 \/ t[k] \notin Whitespace

\* C3: a download_repo call that obtained the tip returns the existing
\* snapshot without downloading or extracting exactly when the marker file
\* exists and its first line, trailing whitespace trimmed, equals that tip; on
\* such a hit nothing on disk is modified; otherwise a download is performed.
C3_ReuseExactlyWhenMarkerMatches ==
    \A i \in 1..Len(log) :
        LET x == log[i]
        IN /\ x.sha = NoSha => (~x.hit /\ ~x.ok /\ ~x.downloaded)
           /\ x.sha # NoSha =>
                /\ x.hit <=> (x.seen # NoFile /\ IsTrimmedFirstLine(x.sha, x.seen))
                /\ x.hit => /\ x.ok /\ x.untouched
                            /\ ~x.downloaded /\ ~x.extracted /\ ~x.wrote
                            /\ x.path = ExpectedPath(x.root, GITHUB_EB_MAIN,
                                                     GITHUB_EASYCONFIGS_REPO, x.branch)
                /\ ~x.hit => x.downloaded

C3_Witness ==
    /\ Len(log) = 1
    /\ log[1].hit
    /\ log[1].seen # log[1].sha
    /\ log[1].untouched

\* ------------------------------------- fetch_easyconfigs_from_pr, step by step
FeRaise(c, why) == [c EXCEPT !.pc = "done", !.ok = FALSE, !.err = why]

\* lines 374-388: the destination path is created (a fresh directory)
fetch_easyconfigs_from_pr ==
    /\ fe.pc = "idle"
    /\ fe' = [fe EXCEPT !.pc = "pr_data"]
    /\ UNCHANGED <<cacheVars, pr, dest, facadeVars>>

\* line 389, fetch_pr_data (lines 1782-1795)
fetch_pr_data ==
    /\ fe.pc = "pr_data"
    /\ \/ fe' = [fe EXCEPT !.pc = "repo", !.data = pr]
       \/ fe' = FeRaise(fe, "pr data")
    /\ UNCHANGED <<cacheVars, pr, dest, facadeVars>>

\* lines 391-394
PrMerged(d) == d.merged
PrClosedIgnoresMerged(d) == d.state = GITHUB_STATE_CLOSED
PrClosedNever(d) == FALSE
PrClosed(d) == d.state = GITHUB_STATE_CLOSED /\ ~d.merged
PrTargetBranchDevelop(d) == GITHUB_DEVELOP_BRANCH
PrTargetBranch(d) == d.base

\* lines 397-399: download_repo(repo, account, branch=pr_target_branch), no path
fetch_download_target_branch ==
    /\ fe.pc = "repo"
    /\ BeginDownloadRepo(1, NoPathArg, PrTargetBranch(fe.data))
    /\ fe' = [fe EXCEPT !.pc = "wait_repo"]
    /\ UNCHANGED <<remoteTip, disk, log, advances, pr, dest, facadeVars>>

\* download_repo has returned (or raised) into line 398
fetch_target_branch_downloaded ==
    /\ fe.pc = "wait_repo"
    /\ call[1].pc = "idle"
    /\ LET e == log[Len(log)]
       IN fe' = IF e.ok
                THEN [fe EXCEPT !.pc = "diff", !.dl = Len(log), !.repo = e.path]
                ELSE FeRaise([fe EXCEPT !.dl = Len(log)], "download_repo")
    /\ UNCHANGED <<cacheVars, pr, dest, facadeVars>>

\* lines 401-409: the diff is downloaded and the patched files are listed
fetch_diff ==
    /\ fe.pc = "diff"
    /\ \/ fe' = [fe EXCEPT !.pc = "strategy", !.patched = DetPatchedFiles(fe.data.diff)]
       \/ fe' = FeRaise(fe, "diff")
    /\ UNCHANGED <<cacheVars, pr, dest, facadeVars>>

RepoKey(c) == <<log[c.dl].root, log[c.dl].branch>>

\* lines 414-416: merged, the target branch is used as it is
fetch_use_target_branch ==
    /\ fe.pc = "strategy"
    /\ PrMerged(fe.data)
    /\ fe' = [fe EXCEPT !.pc = "links", !.final = fe.repo]
    /\ UNCHANGED <<cacheVars, pr, dest, facadeVars>>

\* apply_patch(diff_filepath, repo_target_branch, use_git_am=True) succeeded
ApplyDiff(snap, d) ==
    [snap EXCEPT !.files = (snap.files \ d.deleted) \cup (d.files \ d.deleted)]

\* lines 425-426: except EasyBuildError, the problem is ignored
OnApplyErrorRaise(c) == FeRaise([c EXCEPT !.applyTried = TRUE], "apply_patch")
OnApplyError(c) == [c EXCEPT !.pc = "files", !.applyTried = TRUE]

\* lines 418-426: open and not merged, the diff is applied to the snapshot
fetch_apply_patch ==
    /\ fe.pc = "strategy"
    /\ ~PrMerged(fe.data)
    /\ ~PrClosed(fe.data)
    /\ \/ /\ disk' = [disk EXCEPT ![RepoKey(fe)] = ApplyDiff(disk[RepoKey(fe)], fe.data.diff)]
          /\ fe' = [fe EXCEPT !.pc = "links", !.applyTried = TRUE,
                              !.applyOk = TRUE, !.final = fe.repo]
       \/ /\ fe' = OnApplyError(fe)
          /\ UNCHANGED disk
    /\ UNCHANGED <<remoteTip, dirs, call, log, nCalls, advances, pr, dest, facadeVars>>

\* line 418 is false: closed and not merged, no patch is applied
fetch_skip_patch ==
    /\ fe.pc = "strategy"
    /\ ~PrMerged(fe.data)
    /\ PrClosed(fe.data)
    /\ fe' = [fe EXCEPT !.pc = "files"]
    /\ UNCHANGED <<cacheVars, pr, dest, facadeVars>>

\* lines 428-442: each patched file is downloaded at the head commit; a
\* download that fails leaves no file behind
fetch_download_files ==
    /\ fe.pc = "files"
    /\ \E failed \in SUBSET {fe.patched[i] : i \in 1..Len(fe.patched)} :
          dest' = [dest EXCEPT !.files =
                      {LastThree(fe.patched[i]) :
                          i \in {j \in 1..Len(fe.patched) : fe.patched[j] \notin failed}}]
    /\ fe' = [fe EXCEPT !.pc = "check", !.warned = PrClosed(fe.data),
                        !.fetched = {<<fe.data.head, fe.patched[i]>> : i \in 1..Len(fe.patched)},
                        !.final = DestRoot]
    /\ UNCHANGED <<cacheVars, pr, facadeVars>>

EasyconfigsDir == <<"easybuild", "easyconfigs">>

\* os.listdir(os.path.join(final_path, 'easybuild', 'easyconfigs'))
ListEasyconfigsDir(files) ==
    {f[3] : f \in {g \in files : Len(g) >= 3 /\ SubSeq(g, 1, 2) = EasyconfigsDir}}

\* lines 444-448: the entries of easybuild/easyconfigs are linked into path
fetch_symlink ==
    /\ fe.pc = "links"
    /\ LET entries == ListEasyconfigsDir(disk[RepoKey(fe)].files)
       IN IF entries = {}
          THEN /\ fe' = FeRaise(fe, "listdir")
               /\ UNCHANGED dest
          ELSE /\ fe' = [fe EXCEPT !.pc = "check"]
               /\ dest' = [dest EXCEPT !.links = entries]
    /\ UNCHANGED <<cacheVars, pr, facadeVars>>

\* os.path.exists(os.path.join(path, fn)), following the links of lines 446-448
PathExists(d, repoFiles, fn) ==
    \/ fn \in d.files
    \/ /\ fn # <<>>
       /\ fn[1] \in d.links
       /\ (EasyconfigsDir \o fn) \in repoFiles

\* lines 450-460: the list of paths, or an error at the first missing file
SanityCheckSkipped(c, d, repoFiles) ==
    LET checked == SelectSeq(c.patched, LAMBDA f : ~StartsWithTest(f))
    IN [c EXCEPT !.pc = "done", !.ok = TRUE,
                 !.ec_files = [i \in 1..Len(checked) |-> <<DestRoot, LastThree(checked[i])>>]]
SanityCheck(c, d, repoFiles) ==
    LET checked == SelectSeq(c.patched, LAMBDA f : ~StartsWithTest(f))
    IN IF \E i \in 1..Len(checked) : ~PathExists(d, repoFiles, LastThree(checked[i]))
       THEN FeRaise(c, "missing file")
       ELSE [c EXCEPT !.pc = "done", !.ok = TRUE,
                      !.ec_files = [i \in 1..Len(checked) |->
                                       <<DestRoot, LastThree(checked[i])>>]]

fetch_sanity_check ==
    /\ fe.pc = "check"
    /\ fe' = SanityCheck(fe, dest,
                         IF fe.final = DestRoot THEN {} ELSE disk[RepoKey(fe)].files)
    /\ UNCHANGED <<cacheVars, pr, dest, facadeVars>>

InitPR ==
    /\ remoteTip \in [Branches -> Shas]
    /\ disk = [k \in Keys |-> NoSnapshot]
    /\ dirs = {}
    /\ call = [p \in Procs |-> Idle]
    /\ log = <<>>
    /\ nCalls = 0
    /\ advances = 0
    /\ pr \in PullRequests
    /\ fe = FeIdle
    /\ dest = EmptyDest
    /\ FacadeIdle

NextPR ==
    \/ fetch_easyconfigs_from_pr
    \/ fetch_pr_data
    \/ fetch_download_target_branch
    \/ fetch_latest_commit_sha(1)
    \/ check_latest_sha(1)
    \/ download_archive(1)
    \/ extract_archive(1)
    \/ write_latest_sha(1)
    \/ fetch_target_branch_downloaded
    \/ fetch_diff
    \/ fetch_use_target_branch
    \/ fetch_apply_patch
    \/ fetch_skip_patch
    \/ fetch_download_files
    \/ fetch_symlink
    \/ fetch_sanity_check
    \/ RemoteAdvance({pr.base})

SpecPR == InitPR /\ [][NextPR]_vars

\* ------------------------------------------------- content resolver claims
Snapshot == disk[RepoKey(fe)]
Decided ==
    \/ fe.pc \in {"links", "check"}
    \/ fe.pc = "done" /\ fe.err \in {"", "listdir", "missing file"}
NonDeleted == pr.diff.files \ pr.diff.deleted
Expected == SelectSeq(FileOrder, LAMBDA f : f \in NonDeleted /\ f[1] # "test")
ExistsInResult(f) ==
    PathExists(dest, IF fe.final = DestRoot THEN {} ELSE Snapshot.files, LastThree(f))
UsedBase ==
    /\ fe.final = fe.repo /\ ~fe.applyTried /\ fe.fetched = {}
    /\ Snapshot.files = TreeOf(Snapshot.tree)
UsedPatched ==
    /\ fe.final = fe.repo /\ fe.applyTried /\ fe.applyOk /\ fe.fetched = {}
    /\ NonDeleted \subseteq Snapshot.files
UsedFiles ==
    /\ fe.final = DestRoot /\ ~fe.applyOk
    /\ fe.fetched = {<<pr.head, f>> : f \in NonDeleted}

\* C4: for a pull request whose merged flag is set the patch application step
\* is never called, and the tree used is the snapshot that this call
\* downloaded of the tip of the pull request's base branch.
C4_MergedUsesBaseTip ==
    pr.merged =>
        /\ ~fe.applyTried /\ fe.fetched = {}
        /\ Decided =>
             LET e == log[fe.dl]
             IN /\ e.branch = pr.base
                /\ e.downloaded /\ ~e.hit /\ e.unpacked
                /\ fe.final = e.path
                /\ Snapshot.files = TreeOf(Snapshot.tree)
                /\ e.advStart = advances => Snapshot.tree = remoteTip[pr.base]

C4_Witness ==
    /\ pr.merged /\ pr.state = GITHUB_STATE_CLOSED /\ pr.base = "master"
    /\ remoteTip["master"] # remoteTip["develop"]
    /\ fe.pc = "done" /\ fe.ok /\ Len(fe.ec_files) = 2

\* C5: the result is built with exactly one of three strategies: merged =>
\* the base-branch tip without patch application, whatever the state; not
\* merged, open and the patch applies => the patched base-branch snapshot;
\* otherwise (open and the patch does not apply, or closed and not merged) =>
\* per-file download at the head commit.
C5_StrategyByState ==
    Decided =>
        /\ pr.merged => UsedBase
        /\ (~pr.merged /\ pr.state = GITHUB_PR_STATE_OPEN /\ fe.applyOk) => UsedPatched
        /\ (~pr.merged /\ pr.state = GITHUB_PR_STATE_OPEN /\ ~fe.applyOk)
               => (UsedFiles /\ fe.applyTried)
        /\ (~pr.merged /\ pr.state = GITHUB_STATE_CLOSED)
               => (UsedFiles /\ ~fe.applyTried)
        /\ (IF UsedBase THEN 1 ELSE 0) + (IF UsedPatched THEN 1 ELSE 0)
             + (IF UsedFiles THEN 1 ELSE 0) = 1

C5_Witness ==
    /\ ~pr.merged /\ pr.state = GITHUB_STATE_CLOSED
    /\ fe.pc = "done" /\ fe.ok /\ fe.warned
    /\ UsedFiles /\ fe.ec_files # <<>>

\* C6: for an open, unmerged pull request an error of the patch application
\* is not propagated: the call goes on with the per-file download and fails
\* afterwards only if the final check misses a file.
C6_ApplyErrorFallsThrough ==
    (fe.applyTried /\ ~fe.applyOk) =>
        /\ ~pr.merged /\ pr.state = GITHUB_PR_STATE_OPEN
        /\ fe.pc \in {"files", "check", "done"}
        /\ fe.pc \in {"check", "done"} => UsedFiles
        /\ (fe.pc = "done" /\ ~fe.ok) => fe.err = "missing file"

C6_Witness ==
    /\ fe.applyTried /\ ~fe.applyOk
    /\ fe.pc = "done" /\ fe.ok /\ Len(fe.ec_files) = 2

\* C7 (as stated): for an open pull request whose diff touches exactly three
\* files and applies cleanly the call returns exactly three paths, each an
\* existing file.
C7_ThreePaths ==
    (/\ fe.pc = "done" /\ fe.ok
     /\ ~pr.merged /\ pr.state = GITHUB_PR_STATE_OPEN /\ fe.applyOk
     /\ Cardinality(pr.diff.files) = 3 /\ pr.diff.deleted = {})
        => /\ Len(fe.ec_files) = 3
           /\ \A f \in pr.diff.files : ExistsInResult(f)

\* C7 (amended): when fetch_easyconfigs_from_pr returns normally (so also for
\* a pull request that is not closed and whose diff applies cleanly) it
\* returns, in diff order, exactly one path per non-deleted file of the diff
\* whose path does not start with 'test/': the destination joined with the
\* last three components of the file, each an existing file. A diff touching
\* three files gives three paths when none of them is deleted or under test/.
C7_OnePathPerCheckedFile ==
    (fe.pc = "done" /\ fe.ok) =>
        /\ fe.ec_files = [i \in 1..Len(Expected) |->
                             <<DestRoot, LastThree(Expected[i])>>]
        /\ \A i \in 1..Len(Expected) : ExistsInResult(Expected[i])
        /\ (Cardinality(pr.diff.files) = 3 /\ pr.diff.deleted = {}
               /\ TestFile \notin pr.diff.files) => Len(fe.ec_files) = 3

C7_Witness ==
    /\ fe.pc = "done" /\ fe.ok
    /\ ~pr.merged /\ pr.state = GITHUB_PR_STATE_OPEN /\ fe.applyOk
    /\ Cardinality(pr.diff.files) = 3 /\ Len(fe.ec_files) = 3

\* C8: whichever strategy produced the tree, the call returns normally only
\* if every non-deleted file of the diff that is not under test/ exists at
\* its expected place under the destination; if one is absent the call fails
\* and returns no list.
C8_SanityCheck ==
    fe.pc = "done" =>
        /\ fe.ok => \A i \in 1..Len(Expected) : ExistsInResult(Expected[i])
        /\ (fe.err \in {"", "missing file"}
               /\ \E i \in 1..Len(Expected) : ~ExistsInResult(Expected[i]))
              => (~fe.ok /\ fe.err = "missing file")
        /\ ~fe.ok => fe.ec_files = NoList

C8_Witness ==
    /\ fe.pc = "done" /\ ~fe.ok /\ fe.err = "missing file"
    /\ fe.final = fe.repo /\ fe.applyOk
    /\ fe.ec_files = NoList

\* ===================================================== publication facade
\* Entry points new_pr, update_pr, merge_pr, close_pr, sync_pr_with_develop
\* and post_comment_in_issue.  op.steps records, in order, what the entry
\* point in progress did; forge records which kinds of state-mutating calls
\* were sent to the forge since the start of the process.
MaxOps == 2
Mutations == {"push", "comment", "create_pr", "labels", "merge", "close", "reopen"}
Traces == {"dry:push", "dry:comment", "dry:create_pr", "dry:merge", "dry:close",
           "dry:reopen", "dry:updated"}
RETEST == "retest"
NoMsg == ""

DryRunOnlyPlain == opts.dry_run
DryRun == opts.dry_run \/ opts.extended_dry_run

OpRaiseCommentNotFatal(o, why) ==
    IF why = "Failed to create comment" /\ o.name = "merge_pr"
    THEN [o EXCEPT !.pc = "merge", !.err = why]
    ELSE [o EXCEPT !.pc = "done", !.ok = FALSE, !.err = why]
OpRaise(o, why) == [o EXCEPT !.pc = "done", !.ok = FALSE, !.err = why]
OpReturn(o) == [o EXCEPT !.pc = "done", !.ok = TRUE]
Did(o, what) == [o EXCEPT !.steps = Append(@, what)]

\* Comments carry what check_pr_eligible_to_merge reads from their body.
SuccessReport == [header |-> TRUE, success |-> TRUE, failed |-> FALSE]
FailedReport == [header |-> TRUE, success |-> FALSE, failed |-> TRUE]
Approved(user) == [state |-> "APPROVED", user |-> user]
FullPrExtras ==
    { [author |-> a, repo |-> GITHUB_EASYCONFIGS_REPO, status |-> "success",
       comments |-> cs, reviews |-> <<Approved("r1")>>, milestone |-> m]
        : a \in {"me", "other"}, cs \in {<<SuccessReport>>, <<SuccessReport, FailedReport>>},
          m \in BOOLEAN }

\* The test report loop: comments from the last to the first, decided by
\* the first one with the header and a SUCCESS or FAILED marker.
RECURSIVE LastTestReportOldestFirst(_)
LastTestReportOldestFirst(cs) ==
    IF cs = <<>> THEN "none"
    ELSE LET c == cs[1] IN
         IF c.header /\ c.success THEN "success"
         ELSE IF c.header /\ c.failed THEN "failed"
         ELSE LastTestReportOldestFirst(Tail(cs))
RECURSIVE LastTestReport(_)
LastTestReport(cs) ==
    IF cs = <<>> THEN "none"
    ELSE LET c == cs[Len(cs)] IN
         IF c.header /\ c.success THEN "success"
         ELSE IF c.header /\ c.failed THEN "failed"
         ELSE LastTestReport(SubSeq(cs, 1, Len(cs) - 1))

\* The detail printed for the status of the last commit.
StatusDetailPendingAsFailed(st) ==
    CASE st = "success" -> "OK"
      [] st \in {"pending", "error", "failure"} -> "FAILED"
      [] OTHER -> "(result unknown)"
StatusDetail(st) ==
    CASE st = "success" -> "OK"
      [] st = "pending" -> "pending..."
      [] st \in {"error", "failure"} -> "FAILED"
      [] OTHER -> "(result unknown)"

\* The logins of the reviews with state APPROVED, in review order.
ApprovedReviewByLastOnly(reviews) ==
    IF reviews # <<>> /\ reviews[Len(reviews)].state = "APPROVED"
    THEN <<reviews[Len(reviews)].user>> ELSE <<>>
ApprovedReviewBy(reviews) ==
    LET appr == SelectSeq(reviews, LAMBDA r : r.state = "APPROVED")
    IN [i \in 1..Len(appr) |-> appr[i].user]

\* The criteria in the order check_pr_eligible_to_merge evaluates them, each
\* with the detail it prints.
Criteria(d) ==
    LET crit(name, pass, detail, by) ==
            [crit |-> name, pass |-> pass, detail |-> detail, by |-> by]
        last == LastTestReport(d.comments)
        approved_review_by == ApprovedReviewBy(d.reviews)
    IN <<crit("base", d.base = "develop",
              IF d.base = "develop" THEN "OK" ELSE "FAILED; found other branch", <<>>),
         crit("status", d.status = "success",
              StatusDetail(d.status), <<>>)>>
       \o (IF d.repo = GITHUB_EASYCONFIGS_REPO
           THEN <<crit("report", last = "success",
                       CASE last = "success" -> "OK"
                         [] last = "failed" -> "FAILED"
                         [] OTHER -> "(no test reports found)", <<>>)>>
           ELSE <<>>)
       \o <<crit("review", approved_review_by # <<>>,
                 IF approved_review_by # <<>> THEN "OK" ELSE "MISSING", approved_review_by),
            crit("milestone", d.milestone,
                 IF d.milestone THEN "OK" ELSE "no milestone found", <<>>)>>

\* res after one criterion: not_eligible() makes it False, a pass leaves it
ResAfterLastWins(res, pass) == pass
ResAfter(res, pass) == IF pass THEN res ELSE FALSE

RECURSIVE FoldRes(_, _)
FoldRes(crits, res) ==
    IF crits = <<>> THEN res ELSE FoldRes(Tail(crits), ResAfter(res, crits[1].pass))

check_pr_eligible_to_mergeOncePerRun(d) ==
    [res |-> FoldRes(Criteria(d), TRUE) /\ nOps = 0, report |-> Criteria(d)]
check_pr_eligible_to_merge(d) ==
    [res |-> FoldRes(Criteria(d), TRUE), report |-> Criteria(d)]

post_comment_in_issue ==
    /\ op.pc = "idle" /\ nOps < MaxOps
    /\ \E isInt \in BOOLEAN :
          op' = IF isInt THEN [OpIdle EXCEPT !.name = "post_comment_in_issue",
                                                  !.user = "me", !.msg = "txt", !.pc = "comment"]
                   ELSE OpRaise([OpIdle EXCEPT !.name = "post_comment_in_issue"], "parse issue")
    /\ UNCHANGED <<cacheVars, prVars, opts, forge, wc, nOps>>

RequireUser(o, next) ==
    IF o.user = NoUser THEN OpRaise(o, "GitHub user must be specified") ELSE [o EXCEPT !.pc = next]

merge_pr ==
    /\ op.pc = "idle" /\ nOps < MaxOps
    /\ \E user \in {"me", NoUser}, force \in BOOLEAN :
          op' = RequireUser([OpIdle EXCEPT !.name = "merge_pr", !.user = user, !.force = force],
                            "pr_data")
    /\ UNCHANGED <<cacheVars, prVars, opts, forge, wc, nOps>>

close_pr ==
    /\ op.pc = "idle" /\ nOps < MaxOps
    /\ \E user \in {"me", NoUser}, motivation_msg \in {NoMsg, RETEST, "obsolete"} :
          op' = RequireUser([OpIdle EXCEPT !.name = "close_pr", !.user = user,
                                           !.msg = motivation_msg], "pr_data")
    /\ UNCHANGED <<cacheVars, prVars, opts, forge, wc, nOps>>

\* fetch_pr_data as called by merge_pr and close_pr (full=True) and by
\* det_account_branch_for_pr for update_pr and sync_pr_with_develop.
AfterPrData(name) ==
    CASE name = "merge_pr" -> "merge_gate"
      [] name = "close_pr" -> "close_gate"
      [] name = "update_pr" -> "pr_common"
      [] OTHER -> "init_repo"

fetch_pr_data_for_op ==
    /\ op.pc = "pr_data"
    /\ \/ op' = OpRaise(Did(op, "get:pr"), "Failed to get data for PR")
       \/ /\ op.name \in {"merge_pr", "close_pr"}         \* full=True
          /\ \E x \in FullPrExtras :
                op' = [Did(op, "get:pr") EXCEPT
                          !.pc = AfterPrData(op.name),
                          !.data = [author |-> x.author, repo |-> x.repo, status |-> x.status,
                                    comments |-> x.comments, reviews |-> x.reviews,
                                    milestone |-> x.milestone, base |-> pr.base,
                                    state |-> pr.state]]
       \/ /\ op.name \notin {"merge_pr", "close_pr"}      \* only head.label is used
          /\ \E account \in {"target", "fork"} :
                op' = [Did(op, "get:pr") EXCEPT !.pc = AfterPrData(op.name),
                                                !.account = account]
    /\ UNCHANGED <<cacheVars, prVars, opts, forge, wc, nOps>>

MergeGateAlwaysOpen(o) == TRUE
MergeGate(o) == check_pr_eligible_to_merge(o.data).res \/ o.force

merge_gate ==
    /\ op.pc = "merge_gate"
    /\ op' = IF op.data.author = op.user THEN OpRaise(op, "Please do not merge your own PRs!")
             ELSE IF MergeGate(op) THEN [op EXCEPT !.pc = "comment"]
             ELSE OpReturn(Did(op, "warn:not eligible"))
    /\ UNCHANGED <<cacheVars, prVars, opts, forge, wc, nOps>>

close_gateCommentsAnyway ==
    /\ op.pc = "close_gate"
    /\ IF op.msg # NoMsg THEN op' = [op EXCEPT !.pc = "comment"]
       ELSE \/ op' = [Did(op, "get:reasons") EXCEPT
                         !.pc = "comment", !.err = "No reason specified and none found"]
            \/ op' = OpRaise(Did(op, "get:reasons"), "Failed to get data for PR")
            \/ op' = [Did(op, "get:reasons") EXCEPT !.pc = "comment", !.msg = "archived"]
    /\ UNCHANGED <<cacheVars, prVars, opts, forge, wc, nOps>>

\* reasons_for_closing reads the PR's files and dates; its result is what
\* matters to close_pr: no reason, some reason, or a failed fetch.
close_gate ==
    /\ op.pc = "close_gate"
    /\ IF op.data.state = GITHUB_STATE_CLOSED THEN op' = OpRaise(op, "already closed")
       ELSE IF op.msg # NoMsg THEN op' = [op EXCEPT !.pc = "comment"]
       ELSE \/ op' = OpRaise(Did(op, "get:reasons"), "No reason specified and none found")
            \/ op' = OpRaise(Did(op, "get:reasons"), "Failed to get data for PR")
            \/ op' = [Did(op, "get:reasons") EXCEPT !.pc = "comment", !.msg = "archived"]
    /\ UNCHANGED <<cacheVars, prVars, opts, forge, wc, nOps>>

AfterComment(name) ==
    CASE name = "merge_pr" -> "merge"
      [] name = "close_pr" -> "close"
      [] OTHER -> "done"

post_comment ==
    /\ op.pc = "comment"
    /\ IF DryRun
       THEN /\ op' = [Did(op, "dry:comment") EXCEPT !.pc = AfterComment(op.name),
                                                       !.ok = (AfterComment(op.name) = "done")]
            /\ UNCHANGED forge
       ELSE /\ forge' = forge \cup {"comment"}
            /\ \/ op' = [Did(op, "comment") EXCEPT !.pc = AfterComment(op.name),
                                                    !.ok = (AfterComment(op.name) = "done")]
               \/ op' = OpRaise(Did(op, "comment"), "Failed to create comment")
    /\ UNCHANGED <<cacheVars, prVars, opts, wc, nOps>>

merge_put ==
    /\ op.pc = "merge"
    /\ IF DryRun
       THEN /\ op' = OpReturn(Did(op, "dry:merge"))
            /\ UNCHANGED <<forge, pr>>
       ELSE /\ forge' = forge \cup {"merge"}
            /\ \/ /\ op' = OpReturn(Did(op, "merge"))
                  /\ pr' = [pr EXCEPT !.merged = TRUE, !.state = GITHUB_STATE_CLOSED]
               \/ /\ op' = OpRaise(Did(op, "merge"), "FAILED")
                  /\ UNCHANGED pr
    /\ UNCHANGED <<cacheVars, fe, dest, opts, wc, nOps>>

close_postReopensAlways ==
    /\ op.pc = "close"
    /\ IF DryRun
       THEN /\ op' = OpReturn(Did(Did(op, "dry:close"), "dry:reopen"))
            /\ UNCHANGED <<forge, pr>>
       ELSE \/ /\ op' = OpRaise(op, "GitHub token must be available")
               /\ UNCHANGED <<forge, pr>>
            \/ /\ forge' = forge \cup {"close"}
               /\ \/ /\ op' = [Did(op, "close") EXCEPT !.pc = "reopen"]
                     /\ pr' = [pr EXCEPT !.state = GITHUB_STATE_CLOSED]
                  \/ /\ op' = OpRaise(Did(op, "close"), "Failed to close PR")
                     /\ UNCHANGED pr
    /\ UNCHANGED <<cacheVars, fe, dest, opts, wc, nOps>>

close_post ==
    /\ op.pc = "close"
    /\ IF DryRun
       THEN /\ op' = OpReturn(IF op.msg = RETEST THEN Did(Did(op, "dry:close"), "dry:reopen")
                              ELSE Did(op, "dry:close"))
            /\ UNCHANGED <<forge, pr>>
       ELSE \/ /\ op' = OpRaise(op, "GitHub token must be available")
               /\ UNCHANGED <<forge, pr>>
            \/ /\ forge' = forge \cup {"close"}
               /\ \/ /\ op' = IF op.msg = RETEST THEN [Did(op, "close") EXCEPT !.pc = "reopen"]
                              ELSE OpReturn(Did(op, "close"))
                     /\ pr' = [pr EXCEPT !.state = GITHUB_STATE_CLOSED]
                  \/ /\ op' = OpRaise(Did(op, "close"), "Failed to close PR")
                     /\ UNCHANGED pr
    /\ UNCHANGED <<cacheVars, fe, dest, opts, wc, nOps>>

reopen_post ==
    /\ op.pc = "reopen"
    /\ forge' = forge \cup {"reopen"}
    /\ \/ /\ op' = OpReturn(Did(op, "reopen"))
          /\ pr' = [pr EXCEPT !.state = GITHUB_PR_STATE_OPEN]
       \/ /\ op' = OpRaise(Did(op, "reopen"), "Failed to reopen PR")
          /\ UNCHANGED pr
    /\ UNCHANGED <<cacheVars, fe, dest, opts, wc, nOps>>

\* The entry point returns to its caller, normally or with its error; the
\* working copy it made stays behind and no later entry point uses it.
op_return ==
    /\ op.pc = "done"
    /\ op' = OpIdle
    /\ wc' = NoWorkingCopy
    /\ nOps' = nOps + 1
    /\ UNCHANGED <<cacheVars, prVars, opts, forge>>

\* ------------------------------------------------- files of a change set
\* A tree maps file names to contents: a set of <<name, content>> pairs.
StartTree == {<<"toy-1.0.eb", "v1">>, <<"old-1.0.eb", "v0">>}
Ec(fn, content, exists) == [fn |-> fn, content |-> content, exists |-> exists]
ToySame == Ec("toy-1.0.eb", "v1", TRUE)
GccNew == Ec("gcc-1.0.eb", "v1", TRUE)
Paths(e, d, pf) == [easyconfigs |-> e, files_to_delete |-> d, patch_files |-> pf]
PathsInputs ==
    { Paths(e, {}, {}) : e \in {{}, {ToySame}, {Ec("toy-1.0.eb", "v2", TRUE)},
                                 {Ec("toy-2.0.eb", "v1", TRUE)}, {GccNew},
                                 {Ec("ghost-1.0.eb", "v1", FALSE)}, {ToySame, GccNew}} }
    \cup { Paths({}, {"old-1.0.eb"}, {}), Paths({}, {"nothere.eb"}, {}),
           Paths({ToySame}, {"old-1.0.eb"}, {}), Paths({}, {}, {"toy.patch"}),
           Paths({GccNew}, {}, {"toy.patch"}), Paths({ToySame}, {}, {"toy.patch"}) }
SoftwareOf(fn) ==
    CASE fn \in {"toy-1.0.eb", "toy-2.0.eb", "toy.patch"} -> "toy"
      [] fn = "gcc-1.0.eb" -> "gcc"
      [] OTHER -> "old"
InTree(tree, fn) == \E e \in tree : e[1] = fn
HasFolder(tree, fn) == \E e \in tree : SoftwareOf(e[1]) = SoftwareOf(fn)
WriteFiles(tree, entries) ==
    {e \in tree : ~\E n \in entries : n[1] = e[1]} \cup entries
RemoveFiles(tree, fns) == {e \in tree : e[1] \notin fns}

new_pr ==
    /\ op.pc = "idle" /\ nOps < MaxOps
    /\ \E user \in {"me", NoUser}, token \in BOOLEAN, paths \in PathsInputs,
          commit_msg \in {NoMsg, "msg"}, title \in {NoMsg, "title"} :
          LET o == [OpIdle EXCEPT !.name = "new_pr", !.user = user, !.paths = paths,
                                  !.msg = commit_msg, !.title = title]
          IN op' = IF user = NoUser THEN OpRaise(o, "GitHub user must be specified")
                   ELSE IF ~token THEN OpRaise(o, "GitHub token must be available")
                   ELSE [o EXCEPT !.pc = "pr_common"]
    /\ UNCHANGED <<cacheVars, prVars, opts, forge, wc, nOps>>

update_pr ==
    /\ op.pc = "idle" /\ nOps < MaxOps
    /\ \E user \in {"me", NoUser}, paths \in PathsInputs, commit_msg \in {NoMsg, "msg"} :
          LET o == [OpIdle EXCEPT !.name = "update_pr", !.user = user, !.paths = paths,
                                  !.msg = commit_msg]
          IN op' = IF commit_msg = NoMsg THEN OpRaise(o, "A meaningful commit message must be specified")
                   ELSE RequireUser(o, "pr_data")
    /\ UNCHANGED <<cacheVars, prVars, opts, forge, wc, nOps>>

sync_pr_with_develop ==
    /\ op.pc = "idle" /\ nOps < MaxOps
    /\ \E user \in {"me", NoUser} :
          op' = RequireUser([OpIdle EXCEPT !.name = "sync_pr_with_develop", !.user = user],
                            "pr_data")
    /\ UNCHANGED <<cacheVars, prVars, opts, forge, wc, nOps>>

\* _easyconfigs_pr_common, lines 672-686
pr_common_check_paths ==
    /\ op.pc = "pr_common"
    /\ op' = IF \E e \in op.paths.easyconfigs : ~e.exists
             THEN OpRaise(op, "One or more non-existing paths specified")
             ELSE IF op.paths = NoPaths THEN OpRaise(op, "No paths specified")
             ELSE [op EXCEPT !.pc = "init_repo"]
    /\ UNCHANGED <<cacheVars, prVars, opts, forge, wc, nOps>>

\* init_repo: a fresh directory, seeded from a local clone when
\* git_working_dirs_path holds one, then git init.
init_repo ==
    /\ op.pc = "init_repo"
    /\ \/ /\ op' = [Did(op, "init") EXCEPT !.pc = "setup_repo", !.attempt = 1]
          /\ \/ wc' = [NoWorkingCopy EXCEPT !.made = TRUE]         \* no local mirror
             \/ wc' = [NoWorkingCopy EXCEPT !.made = TRUE, !.seed = "cloned",
                                            !.heads = {"develop", "pr_branch"},
                                            !.hist = {<<"develop", "stale">>,
                                                      <<"pr_branch", "stale">>}]
       \/ /\ op' = OpRaise(op, "Failed to clone git repo")
          /\ wc' = [NoWorkingCopy EXCEPT !.seed = "clone failed"]
       \/ /\ op' = OpRaise(op, "Failed to init git repo")
          /\ wc' = NoWorkingCopy
    /\ UNCHANGED <<cacheVars, prVars, opts, forge, nOps>>

StartBranch(o) ==
    CASE o.name = "new_pr" -> GITHUB_DEVELOP_BRANCH
      [] o.name = "setup_repo" -> "master"
      [] OTHER -> "pr_branch"
PrBranch(o) == IF o.name = "new_pr" THEN "new_pr_branch" ELSE "pr_branch"

\* the salts random.choice can draw for the names of remotes and branches
Salts == {"a", "b"}

\* tmpl_github_urls of setup_repo
URLsSshFirst(git_only) == IF git_only THEN <<"ssh">> ELSE <<"ssh", "https">>
URLs(git_only) == IF git_only THEN <<"ssh">> ELSE <<"https", "ssh">>

\* How one call of setup_repo_from ends.
SetupOutcomes == {"remote exists", "does not exist", "fetch failed", "branch not found",
                  "checked out", "checked out salted", "checkout failed"}
SetupStepsClashAddsRemote(out) ==
    CASE out \in {"remote exists", "does not exist"} -> <<"remote">>
      [] out \in {"fetch failed", "branch not found"} -> <<"remote", "fetch">>
      [] out = "checked out" -> <<"remote", "fetch", "checkout">>
      [] OTHER -> <<"remote", "fetch", "checkout", "checkout">>
SetupSteps(out) ==
    CASE out = "remote exists" -> <<>>
      [] out = "does not exist" -> <<"remote">>
      [] out = "fetch failed" -> <<"remote", "fetch">>
      [] out = "branch not found" -> <<"remote", "fetch">>
      [] out = "checked out" -> <<"remote", "fetch", "checkout">>
      [] OTHER -> <<"remote", "fetch", "checkout", "checkout">>
AltBranchSameName(branch) == branch
AltBranch(branch) == branch \o "_salt"

\* One pass of the loop of setup_repo: setup_repo_from for the next URL form.
setup_repo ==
    /\ op.pc = "setup_repo"
    /\ \E out \in SetupOutcomes, salt \in Salts :
          LET urls == URLs(op.git_only)
              remote_name == <<"pr_target_account", op.account, salt>>
              url == urls[op.attempt]
              branch == StartBranch(op)
              ok == out \in {"checked out", "checked out salted"}
              b == IF out = "checked out" THEN branch ELSE AltBranch(branch)
              withRemote == [wc EXCEPT !.remotes = @ \cup {remote_name}]
              o == [op EXCEPT !.steps = @ \o SetupSteps(out),
                              !.attempts = Append(@, [url |-> url, out |-> out])]
          IN /\ out = "remote exists" <=> remote_name \in wc.remotes
             /\ out = "checked out" => branch \notin wc.heads
             /\ wc' = IF ok
                      THEN [withRemote EXCEPT !.heads = @ \cup {b}, !.cur = b, !.base = StartTree,
                                              !.hist = {x \in @ : x[1] # b} \cup {<<b, "fetched">>},
                                              !.work = StartTree, !.index = StartTree]
                      ELSE withRemote
             /\ op' = IF ok
                      THEN CASE op.name = "sync_pr_with_develop" -> [o EXCEPT !.pc = "sync_merge"]
                             [] op.name = "setup_repo" -> OpReturn(o)
                             [] OTHER -> [o EXCEPT !.pc = "copy"]
                      ELSE IF out = "remote exists" THEN OpRaise(o, "GitCommandError")
                      ELSE IF op.attempt < Len(urls) THEN [o EXCEPT !.attempt = @ + 1]
                      ELSE OpRaise(o, "Checking out branch failed")
    /\ UNCHANGED <<cacheVars, prVars, opts, forge, nOps>>

\* copy_easyconfigs places every easyconfig in the working tree and tells
\* which of them are new there.
copy_easyconfigs(tree, ecs) ==
    [tree |-> WriteFiles(tree, {<<e.fn, e.content>> : e \in ecs}),
     new |-> {e.fn : e \in {x \in ecs : ~InTree(tree, x.fn)}},
     new_folder |-> {e.fn : e \in {x \in ecs : ~HasFolder(tree, x.fn)}}]

pr_common_copyDerivesAlways ==
    /\ op.pc = "copy"
    /\ LET info == copy_easyconfigs(wc.work, op.paths.easyconfigs)
           all_new == \A e \in op.paths.easyconfigs : e.fn \in info.new
           labels == (IF info.new_folder # {} THEN {"new"} ELSE {})
                     \cup (IF info.new \ info.new_folder # {} THEN {"update"} ELSE {})
           o == [Did(op, "copy") EXCEPT !.all_new = all_new, !.labels = labels]
       IN /\ wc' = [wc EXCEPT !.work = info.tree]
          /\ op' = IF op.msg # NoMsg THEN [o EXCEPT !.pc = "patches", !.commit_msg = op.msg]
                   ELSE [o EXCEPT !.pc = "patches", !.commit_msg = "adding easyconfigs"]
    /\ UNCHANGED <<cacheVars, prVars, opts, forge, nOps>>

\* _easyconfigs_pr_common, lines 714-730
pr_common_copy ==
    /\ op.pc = "copy"
    /\ LET info == copy_easyconfigs(wc.work, op.paths.easyconfigs)
           all_new == \A e \in op.paths.easyconfigs : e.fn \in info.new
           labels == (IF info.new_folder # {} THEN {"new"} ELSE {})
                     \cup (IF info.new \ info.new_folder # {} THEN {"update"} ELSE {})
           o == [Did(op, "copy") EXCEPT !.all_new = all_new, !.labels = labels]
       IN /\ wc' = [wc EXCEPT !.work = info.tree]
          /\ op' = IF op.msg # NoMsg THEN [o EXCEPT !.pc = "patches", !.commit_msg = op.msg]
                   ELSE IF all_new /\ op.paths.files_to_delete = {}
                   THEN [o EXCEPT !.pc = "patches", !.commit_msg = "adding easyconfigs"]
                   ELSE OpRaise(o, "A meaningful commit message must be specified")
    /\ UNCHANGED <<cacheVars, prVars, opts, forge, nOps>>

\* _easyconfigs_pr_common, lines 732-751: patches are attributed and copied,
\* files to delete are looked up in the working tree.
pr_common_patches_and_deletes ==
    /\ op.pc = "patches"
    /\ \/ /\ op.paths.patch_files # {}
          /\ op' = OpRaise(op, "Failed to determine software name to which patch file belongs")
          /\ UNCHANGED wc
       \/ LET work == WriteFiles(wc.work, {<<pf, "p1">> : pf \in op.paths.patch_files})
          IN /\ wc' = [wc EXCEPT !.work = work]
             /\ op' = IF \E fn \in op.paths.files_to_delete : ~InTree(work, fn)
                      THEN OpRaise(op, "file to delete isn't found in target branch")
                      ELSE [op EXCEPT !.pc = "stage", !.deleted = op.paths.files_to_delete]
    /\ UNCHANGED <<cacheVars, prVars, opts, forge, nOps>>

Staged(w, o) ==
    LET fns == {e.fn : e \in o.paths.easyconfigs} \cup o.paths.patch_files
    IN RemoveFiles(WriteFiles(w.index, {e \in w.work : e[1] \in fns}), o.deleted)

\* git_repo.create_head(name, force=True).checkout(): the branch is made, or
\* moved, to the commit that is checked out
create_headKeepsExisting(w, name) ==
    IF name \in w.heads THEN [w EXCEPT !.cur = name]
    ELSE [w EXCEPT !.heads = @ \cup {name}, !.cur = name,
                   !.hist = @ \cup {<<name, x[2]>> : x \in {y \in w.hist : y[1] = w.cur}}]
create_head(w, name) ==
    [w EXCEPT !.heads = @ \cup {name}, !.cur = name,
              !.hist = {x \in @ : x[1] # name}
                       \cup {<<name, x[2]>> : x \in {y \in w.hist : y[1] = w.cur}}]

\* _easyconfigs_pr_common, lines 773-797
pr_common_stage ==
    /\ op.pc = "stage"
    /\ wc' = [create_head(wc, PrBranch(op)) EXCEPT
                        !.index = Staged(wc, op)]
    /\ op' = [Did(Did(op, "branch"), "stage") EXCEPT !.pc = "diff"]
    /\ UNCHANGED <<cacheVars, prVars, opts, forge, nOps>>

DiffStatNeverEmpty(w) == FALSE
DiffStatEmpty(w) == w.index = w.base

\* the full staged diff is printed before the diff stat is taken
FullPatchShownInAnyDryRun == DryRun
FullPatchShown == opts.extended_dry_run

\* _easyconfigs_pr_common, lines 799-810
pr_common_diff_and_commit ==
    /\ op.pc = "diff"
    /\ LET shown == IF FullPatchShown THEN Did(op, "full diff") ELSE op IN
       IF DiffStatEmpty(wc)
       THEN /\ op' = OpRaise(Did(shown, "diff"), "No changed files found")
            /\ UNCHANGED wc
       ELSE /\ op' = [Did(Did(shown, "diff"), "commit") EXCEPT !.pc = "push"]
            /\ wc' = [wc EXCEPT !.base = wc.index,
                                !.commits = Append(@, [branch |-> wc.cur, msg |-> op.commit_msg,
                                                       parent |-> {x[2] : x \in {y \in wc.hist : y[1] = wc.cur}},
                                                       tree |-> wc.index])]
    /\ UNCHANGED <<cacheVars, prVars, opts, forge, nOps>>

AfterPush(o) ==
    CASE o.name = "new_pr" -> [o EXCEPT !.pc = "open_pr"]
      [] o.name = "update_pr" -> [o EXCEPT !.pc = "updated"]
      [] OTHER -> OpReturn(o)

\* What remote.push(branch) gives: a result without error flag, a
\* GitCommandError, a result with the ERROR flag (a rejected push), or an
\* empty result.
PushResults == {"ok", "GitCommandError", "error flag", "empty result"}
PushOkAlways(res) == TRUE
PushOkUnlessCommandFails(res) == res # "GitCommandError"
PushOk(res) == res = "ok"

push_branch_to_github ==
    /\ op.pc = "push"
    /\ \E salt \in Salts :
       LET remote_name == <<"github", IF op.name = "new_pr" THEN "me" ELSE op.account, salt>>
           branch == PrBranch(op) IN
       \/ /\ op' = OpRaise(op, "Failed to create remote")
          /\ UNCHANGED <<wc, forge>>
       \/ /\ remote_name \notin wc.remotes
          /\ wc' = [wc EXCEPT !.remotes = @ \cup {remote_name}]
          /\ IF DryRun
             THEN /\ op' = AfterPush(Did(Did(op, "create_remote"), "dry:push"))
                  /\ UNCHANGED forge
             ELSE /\ forge' = forge \cup {"push"}
                  /\ \E res \in PushResults :
                        LET o == [Did(Did(op, "create_remote"), "push") EXCEPT
                                     !.push = res, !.pushed = branch]
                        IN op' = IF PushOk(res) THEN AfterPush(o)
                                 ELSE OpRaise(o, "Failed to push branch")
    /\ UNCHANGED <<cacheVars, prVars, opts, nOps>>

\* new_pr, lines 1303-1387
new_pr_open ==
    /\ op.pc = "open_pr"
    /\ IF op.title = NoMsg /\ op.msg = NoMsg
          /\ ~(op.paths.easyconfigs # {} /\ op.all_new /\ op.deleted = {})
       THEN /\ op' = OpRaise(op, "Don't know how to make a PR title")
            /\ UNCHANGED forge
       ELSE IF DryRun
       THEN /\ op' = OpReturn(Did(op, "dry:create_pr"))
            /\ UNCHANGED forge
       ELSE /\ forge' = forge \cup {"create_pr"}
            /\ \/ op' = OpRaise(Did(op, "create_pr"), "Failed to open PR")
               \/ op' = IF op.labels = {} THEN OpReturn(Did(op, "create_pr"))
                        ELSE [Did(op, "create_pr") EXCEPT !.pc = "labels"]
    /\ UNCHANGED <<cacheVars, prVars, opts, wc, nOps>>

\* new_pr, lines 1389-1398: a refused label post is logged, not raised
new_pr_labels ==
    /\ op.pc = "labels"
    /\ forge' = forge \cup {"labels"}
    /\ \/ op' = OpReturn(Did(op, "labels"))
       \/ op' = OpReturn(Did(op, "labels:failed"))
    /\ UNCHANGED <<cacheVars, prVars, opts, wc, nOps>>

\* update_pr, lines 1446-1452
update_pr_report ==
    /\ op.pc = "updated"
    /\ op' = OpReturn(Did(op, IF DryRun THEN "dry:updated" ELSE "updated"))
    /\ UNCHANGED <<cacheVars, prVars, opts, forge, wc, nOps>>

\* sync_pr_with_develop, lines 1852-1873
sync_merge ==
    /\ op.pc = "sync_merge"
    /\ \E salt \in Salts :
       LET remote_name == <<"github", "target", salt>> IN
       \/ /\ op' = OpRaise(op, "Failed to create remote")
          /\ UNCHANGED wc
       \/ /\ op' = OpRaise(Did(op, "create_remote"), "GitCommandError")
          /\ wc' = [wc EXCEPT !.remotes = @ \cup {remote_name}]
       \/ LET pulled == [wc EXCEPT !.remotes = @ \cup {remote_name},
                                    !.hist = @ \cup {<<wc.cur, "develop tip">>}]
              develop == create_head(pulled, GITHUB_DEVELOP_BRANCH)
              \* git checkout pr_branch: the local branch, or a new one at the
              \* fetched remote branch when there is none
              back == [develop EXCEPT !.heads = @ \cup {"pr_branch"}, !.cur = "pr_branch",
                                      !.hist = IF "pr_branch" \in develop.heads THEN @
                                               ELSE @ \cup {<<"pr_branch", "fetched">>}]
              merged == back.hist \cup {<<"pr_branch", x[2]>> :
                                           x \in {y \in back.hist : y[1] = GITHUB_DEVELOP_BRANCH}}
          IN /\ op' = [Did(Did(Did(op, "create_remote"), "pull"), "merge develop")
                          EXCEPT !.pc = "push"]
             /\ wc' = [back EXCEPT !.hist = merged,
                                   !.commits = Append(@, [branch |-> "pr_branch", msg |-> "merge",
                                                          parent |-> {x[2] : x \in {y \in merged : y[1] = "pr_branch"}},
                                                          tree |-> wc.index])]
    /\ UNCHANGED <<cacheVars, prVars, opts, forge, nOps>>

\* setup_repo called on a repository that init_repo just made, as
\* check_github does with git_only=True and _easyconfigs_pr_common without.
call_setup_repo ==
    /\ op.pc = "idle" /\ nOps < MaxOps
    /\ \E git_only \in BOOLEAN, seeded \in {{}, {"master"}} :
          /\ op' = [OpIdle EXCEPT !.name = "setup_repo", !.pc = "setup_repo", !.attempt = 1,
                                  !.git_only = git_only]
          /\ wc' = [NoWorkingCopy EXCEPT !.made = TRUE, !.heads = seeded,
                                          !.hist = {<<b, "stale">> : b \in seeded}]
    /\ UNCHANGED <<cacheVars, prVars, opts, forge, nOps>>

InitFacade ==
    /\ remoteTip = [b \in Branches |-> <<"a">>]
    /\ disk = [k \in Keys |-> NoSnapshot]
    /\ dirs = {}
    /\ call = [p \in Procs |-> Idle]
    /\ log = <<>>
    /\ nCalls = 0
    /\ advances = 0
    /\ pr \in {x \in PullRequests : ~x.merged /\ x.state = GITHUB_PR_STATE_OPEN
                                     /\ x.diff.files = {}}
    /\ fe = FeIdle
    /\ dest = EmptyDest
    /\ opts \in [dry_run : BOOLEAN, extended_dry_run : BOOLEAN]
    /\ op = OpIdle
    /\ forge = {}
    /\ wc = NoWorkingCopy
    /\ nOps = 0

NextFacade ==
    \/ post_comment_in_issue \/ merge_pr \/ close_pr \/ new_pr \/ update_pr
    \/ sync_pr_with_develop \/ fetch_pr_data_for_op \/ merge_gate \/ close_gate
    \/ post_comment \/ merge_put \/ close_post \/ reopen_post \/ op_return
    \/ pr_common_check_paths \/ init_repo \/ setup_repo \/ pr_common_copy
    \/ pr_common_patches_and_deletes \/ pr_common_stage \/ pr_common_diff_and_commit
    \/ push_branch_to_github \/ new_pr_open \/ new_pr_labels \/ update_pr_report
    \/ sync_merge

SpecFacade == InitFacade /\ [][NextFacade]_vars

NextSetup == call_setup_repo \/ setup_repo \/ op_return

SpecSetup == InitFacade /\ [][NextSetup]_vars

\* ---------------------------------------------- eligibility on its own
MaxComments == 2
MaxReviews == 2
SeqsUpTo(S, n) == UNION {[1..k -> S] : k \in 0..n}
CommentKinds ==
    {SuccessReport, FailedReport,
     [header |-> TRUE, success |-> TRUE, failed |-> TRUE],
     [header |-> TRUE, success |-> FALSE, failed |-> FALSE],
     [header |-> FALSE, success |-> TRUE, failed |-> FALSE]}
PrRecords ==
    [base : Branches, repo : {GITHUB_EASYCONFIGS_REPO, "easybuild-framework"},
     status : {"success", "pending", "error", "failure", "unknown"},
     comments : SeqsUpTo(CommentKinds, MaxComments),
     reviews : SeqsUpTo({Approved("r1"), Approved("r2"),
                         [state |-> "CHANGES_REQUESTED", user |-> "r1"]}, MaxReviews),
     milestone : BOOLEAN]

\* check_pr_eligible_to_merge called on a PR record, with the force build
\* option set or not.
call_check_pr_eligible_to_merge ==
    /\ op.pc = "idle" /\ nOps < MaxOps
    /\ \E d \in PrRecords, force \in BOOLEAN :
          LET r == check_pr_eligible_to_merge(d)
          IN op' = [OpIdle EXCEPT !.name = "check_pr_eligible_to_merge", !.pc = "done",
                                  !.data = d, !.force = force, !.ok = r.res,
                                  !.report = r.report]
    /\ UNCHANGED <<cacheVars, prVars, opts, forge, wc, nOps>>

InitEligible == InitFacade /\ ~opts.dry_run /\ ~opts.extended_dry_run /\ pr.base = "develop"

NextEligible == call_check_pr_eligible_to_merge \/ op_return

SpecEligible == InitEligible /\ [][NextEligible]_vars

\* ------------------------------------------- patch attribution on its own
MaxPatches == 2
MaxKnown == 1
MaxFiles == 2

\* os.path.basename of the patch paths used here
BasenameKeepsDirectory(path) == path
Basename(path) == IF path = "/p/a.patch" THEN "a.patch" ELSE path

\* An easyconfig as is_patch_for reads it: its name, its patches, and the
\* patches in the options of its extensions.
is_patch_forTopLevelOnly(patch_name, ec) == patch_name \in ec.patches
is_patch_for(patch_name, ec) == patch_name \in (ec.patches \cup ec.exts)

\* The name of the first easyconfig of the list that has the patch, "" for None
FirstOwner(ecs, patch_name) ==
    LET hits == SelectSeq(ecs, LAMBDA ec : is_patch_for(patch_name, ec))
    IN IF hits = <<>> THEN "" ELSE hits[1].name

\* ec_dirs is the walk of the search roots: the files in walk order, each
\* with its name, whether its text contains 'patches', whether
\* process_easyconfig parses it, and the easyconfig it parses to.
\* The result holds the name found and, as ghost, the files handed to
\* process_easyconfig.
find_software_name_for_patchScansOn(patch_name, ec_dirs) ==
    LET all_ecs == SelectSeq(ec_dirs, LAMBDA f : f.fn \notin {"TEMPLATE.eb", "x.py"} /\ f.txt)
        parsed == SelectSeq(all_ecs, LAMBDA f : f.parses)
    IN [patch |-> patch_name, processed |-> all_ecs,
        soft_name |-> FirstOwner([i \in 1..Len(parsed) |-> parsed[i].ec], patch_name)]
find_software_name_for_patch(patch_name, ec_dirs) ==
    LET all_ecs == SelectSeq(ec_dirs, LAMBDA f : f.fn \notin {"TEMPLATE.eb", "x.py"} /\ f.txt)
        hits == {i \in 1..Len(all_ecs) :
                    all_ecs[i].parses /\ is_patch_for(patch_name, all_ecs[i].ec)}
        last == IF hits = {} THEN Len(all_ecs) ELSE CHOOSE i \in hits : \A j \in hits : i <= j
        parsed == SelectSeq(SubSeq(all_ecs, 1, last), LAMBDA f : f.parses)
    IN [patch |-> patch_name, processed |-> SubSeq(all_ecs, 1, last),
        soft_name |-> FirstOwner([i \in 1..Len(parsed) |-> parsed[i].ec], patch_name)]

\* res collects patch_specs and, as ghost, the patch files the scan ran for.
RECURSIVE det_patch_specs(_, _, _, _)
det_patch_specs(patch_paths, ecs, ec_dirs, res) ==
    IF patch_paths = <<>> THEN res
    ELSE LET patch_path == Head(patch_paths)
             patch_file == Basename(patch_path)
             known == FirstOwner(ecs, patch_file)
             found == find_software_name_for_patch(patch_file, ec_dirs)
             scanned == [res EXCEPT !.scans = Append(@, found)]
         IN IF known # ""
            THEN det_patch_specs(Tail(patch_paths), ecs, ec_dirs,
                                 [res EXCEPT !.specs = Append(@, <<patch_path, known>>)])
            ELSE IF found.soft_name # ""
            THEN det_patch_specs(Tail(patch_paths), ecs, ec_dirs,
                                 [scanned EXCEPT !.specs = Append(@, <<patch_path, found.soft_name>>)])
            ELSE [scanned EXCEPT !.ok = FALSE, !.specs = <<>>, !.err = patch_path]

PatchInputs ==
    LET Easyconfig(name, patches, exts) == [name |-> name, patches |-> patches, exts |-> exts]
        ToyA == Easyconfig("toy", {"a.patch"}, {})
        GccB == Easyconfig("gcc", {}, {"b.patch"})
        Bare == Easyconfig("bar", {}, {})
        File(fn, parses, ec) ==
            [fn |-> fn, txt |-> (ec.patches \cup ec.exts # {}), parses |-> parses, ec |-> ec]
    IN [patch_paths : SeqsUpTo({"a.patch", "/p/a.patch", "b.patch"}, MaxPatches) \ {<<>>},
        ecs : SeqsUpTo({ToyA, GccB, Bare}, MaxKnown),
        ec_dirs : SeqsUpTo({File("toy.eb", TRUE, ToyA), File("gcc.eb", TRUE, GccB),
                            File("bar.eb", TRUE, Bare), File("toy.eb", FALSE, ToyA),
                            File("TEMPLATE.eb", TRUE, ToyA), File("x.py", TRUE, GccB)},
                           MaxFiles)]

call_det_patch_specs ==
    /\ op.pc = "idle" /\ nOps < MaxOps
    /\ \E in \in PatchInputs :
          LET r == det_patch_specs(in.patch_paths, in.ecs, in.ec_dirs,
                                   [ok |-> TRUE, specs |-> <<>>, err |-> "", scans |-> <<>>])
          IN op' = [OpIdle EXCEPT !.name = "det_patch_specs", !.pc = "done", !.data = in,
                                  !.ok = r.ok, !.err = r.err, !.report = r.specs,
                                  !.steps = r.scans]
    /\ UNCHANGED <<cacheVars, prVars, opts, forge, wc, nOps>>

\* ---------------------------------------------- reasons for closing a PR
MaxPrFiles == 2
InactiveDays == 180

\* d.age is the number of days since the PR was updated, d.pr_files the
\* easyconfigs of the PR (name, version, toolchain), d.tree the easyconfigs
\* under the robot path by package directory and version, d.archive the
\* archived toolchains, d.title the package names the PR title contains.
reasons_for_closingWhateverTheTitle(d) ==
    LET obsoleted == {e \in d.pr_files :
                         \E t \in d.tree : t.name = e.name /\ t.version > e.version}
        uses_archived_tc == {e \in d.pr_files : e.tc \in d.archive}
    IN (IF d.age > InactiveDays THEN <<"inactive">> ELSE <<>>)
       \o (IF uses_archived_tc # {} THEN <<"archived">> ELSE <<>>)
       \o (IF obsoleted # {} THEN <<"obsolete">> ELSE <<>>)
reasons_for_closing(d) ==
    LET obsoleted == {e \in d.pr_files :
                         \E t \in d.tree : t.name = e.name /\ t.version > e.version}
        uses_archived_tc == {e \in d.pr_files : e.tc \in d.archive}
    IN (IF d.age > InactiveDays THEN <<"inactive">> ELSE <<>>)
       \o (IF uses_archived_tc # {} THEN <<"archived">> ELSE <<>>)
       \o (IF \E e \in obsoleted : e.name \in d.title THEN <<"obsolete">> ELSE <<>>)

ClosingInputs ==
    [age : {InactiveDays, InactiveDays + 1},
     pr_files : {fs \in SUBSET [name : {"toy", "gcc"}, version : 1..2, tc : {"GCC-4", "foss-1"}] :
                    Cardinality(fs) <= MaxPrFiles},
     tree : SUBSET [name : {"toy", "gcc"}, version : 1..2],
     archive : {{}, {"GCC-4"}},
     title : SUBSET {"toy", "gcc"}]

call_reasons_for_closing ==
    /\ op.pc = "idle" /\ nOps < MaxOps
    /\ \E d \in ClosingInputs :
          op' = [OpIdle EXCEPT !.name = "reasons_for_closing", !.pc = "done", !.data = d,
                               !.ok = TRUE, !.report = reasons_for_closing(d)]
    /\ UNCHANGED <<cacheVars, prVars, opts, forge, wc, nOps>>

NextLookups == call_det_patch_specs \/ call_reasons_for_closing \/ op_return

SpecLookups == InitEligible /\ [][NextLookups]_vars


\* ----------------------------------------------------------- facade claims
Has(seq, x) == \E i \in 1..Len(seq) : seq[i] = x
TracesOf(steps) == SelectSeq(steps, LAMBDA x : x \in Traces)
Returned == op.pc = "done" /\ op.ok

\* The traces a dry run owes for the mutation boundaries its call reaches.
ExpectedTraces ==
    CASE op.name = "post_comment_in_issue" -> <<"dry:comment">>
      [] op.name = "merge_pr" ->
            IF Has(op.steps, "warn:not eligible") THEN <<>> ELSE <<"dry:comment", "dry:merge">>
      [] op.name = "close_pr" ->
            IF op.msg = RETEST THEN <<"dry:comment", "dry:close", "dry:reopen">>
            ELSE <<"dry:comment", "dry:close">>
      [] op.name = "new_pr" -> <<"dry:push", "dry:create_pr">>
      [] op.name = "update_pr" -> <<"dry:push", "dry:updated">>
      [] OTHER -> <<"dry:push">>

\* C9: with dry_run or extended_dry_run set, no sequence of calls to the six
\* entry points sends a state-mutating call to the forge (push, comment,
\* pull-request creation, label post, merge, close, reopen), and a call that
\* returns has emitted one trace for every mutation boundary it reached.
C9_DryRunMutatesNothing ==
    (opts.dry_run \/ opts.extended_dry_run) =>
        /\ forge = {}
        /\ \A i \in 1..Len(op.steps) : op.steps[i] \notin Mutations
        /\ Returned => TracesOf(op.steps) = ExpectedTraces

C9_Witness ==
    /\ opts.extended_dry_run /\ ~opts.dry_run
    /\ nOps = 1
    /\ Returned
    /\ op.name = "close_pr" /\ op.msg = RETEST
    /\ TracesOf(op.steps) = <<"dry:comment", "dry:close", "dry:reopen">>

\* C10: once _easyconfigs_pr_common has staged a tree equal to the tip of the
\* branch it started from, the call is about to fail or has failed with the
\* empty-change error, and it has neither committed nor pushed.
C10_EmptyChangeRefused ==
    (Has(op.steps, "stage") /\ wc.index = StartTree) =>
        /\ \/ op.pc = "diff"
           \/ op.pc = "done" /\ ~op.ok /\ op.err = "No changed files found"
        /\ wc.commits = <<>>
        /\ ~Has(op.steps, "commit")
        /\ ~Has(op.steps, "push") /\ ~Has(op.steps, "dry:push")
        /\ \A r \in wc.remotes : r[1] # "github"

C10_Witness ==
    /\ op.name = "new_pr"
    /\ op.paths.easyconfigs = {ToySame}
    /\ Has(op.steps, "stage") /\ wc.index = StartTree
    /\ op.pc = "done" /\ op.err = "No changed files found"
    /\ wc.commits = <<>>

Phase(x) ==
    CASE x = "get:pr" -> 0
      [] x \in {"init", "remote", "fetch", "checkout"} -> 1
      [] x \in {"copy", "branch", "stage", "full diff", "diff"} -> 2
      [] x = "commit" -> 3
      [] x \in {"create_remote", "push", "dry:push"} -> 4
      [] OTHER -> 5
Before(steps, x, j) == \E i \in 1..(j - 1) : steps[i] = x
Needs(steps, x, earlier) ==
    \A j \in 1..Len(steps) : steps[j] = x => Before(steps, earlier, j)

\* C11: within one new_pr or update_pr call the steps come in the order
\* working-copy setup, copy and stage, commit, push, notification; a push
\* (or its dry-run trace) always has a commit before it in the same call, and
\* a pull request is created only after a push of the same call that
\* completed without error.
C11_StepsInOrder ==
    op.name \in {"new_pr", "update_pr"} =>
        /\ \A i \in 1..(Len(op.steps) - 1) : Phase(op.steps[i]) <= Phase(op.steps[i + 1])
        /\ Needs(op.steps, "remote", "init")
        /\ Needs(op.steps, "copy", "checkout")
        /\ Needs(op.steps, "stage", "copy")
        /\ Needs(op.steps, "commit", "stage")
        /\ Needs(op.steps, "push", "commit") /\ Needs(op.steps, "dry:push", "commit")
        /\ Needs(op.steps, "create_pr", "push")
        /\ Needs(op.steps, "dry:create_pr", "dry:push")
        /\ Needs(op.steps, "labels", "create_pr")
        /\ Has(op.steps, "create_pr") => op.push = "ok"

C11_Witness ==
    /\ op.name = "new_pr" /\ Returned
    /\ op.attempts = <<[url |-> "https", out |-> "fetch failed"],
                       [url |-> "ssh", out |-> "checked out"]>>
    /\ op.steps = <<"init", "remote", "fetch", "remote", "fetch", "checkout", "copy",
                    "branch", "stage", "diff", "commit", "create_remote", "push",
                    "create_pr", "labels">>

\* C12: in a non-dry run a call gets past push_branch_to_github only when
\* the push gave a non-empty result without error flag; a rejected push, an
\* empty result and a failing git push command each end the call with the
\* push error.
C12_PushMustSucceed ==
    Has(op.steps, "push") =>
        /\ op.push \in PushResults
        /\ op.push # "ok" => op.pc = "done" /\ ~op.ok /\ op.err = "Failed to push branch"
        /\ (op.pc = "done" /\ op.ok) => op.push = "ok"

C12_Witness ==
    /\ op.name = "sync_pr_with_develop"
    /\ op.push = "error flag"
    /\ op.pc = "done" /\ ~op.ok /\ op.err = "Failed to push branch"
    /\ "push" \in forge

\* ------------------------------------------------------ setup_repo claims
Count(steps, x) == Len(SelectSeq(steps, LAMBDA y : y = x))
Succeeded(a) == a.out \in {"checked out", "checked out salted"}
LastAttempt == op.attempts[Len(op.attempts)]

\* C13: a failed checkout of the fetched branch under its own name is
\* retried exactly once under '<branch>_<salt>'; when the retry works the
\* salted branch is what is checked out and setup succeeds, when it fails
\* the attempt fails; no URL sees more than two checkouts.
C13_OneSaltedRetry ==
    /\ Count(op.steps, "checkout") <= 2 * Len(op.attempts)
    /\ Count(op.steps, "checkout") =
          Len(SelectSeq(op.attempts, LAMBDA a : a.out = "checked out"))
          + 2 * Len(SelectSeq(op.attempts,
                              LAMBDA a : a.out \in {"checked out salted", "checkout failed"}))
    /\ \A i \in 1..Len(op.attempts) :
          /\ op.attempts[i].out = "checkout failed" =>
                \/ i < Len(op.attempts)
                \/ op.pc = "setup_repo" /\ op.attempt = i + 1
                \/ op.pc = "done" /\ ~op.ok
          /\ op.attempts[i].out = "checked out salted" =>
                /\ i = Len(op.attempts)
                /\ Returned
                /\ wc.cur = "master_salt" /\ wc.cur \in wc.heads

C13_Witness ==
    /\ Returned
    /\ op.attempts = <<[url |-> "ssh", out |-> "checked out salted"]>>
    /\ wc.heads = {"master", "master_salt"}
    /\ wc.cur = "master_salt"
    /\ Count(op.steps, "checkout") = 2

\* C14: setup_repo tries https first and ssh second (ssh only with
\* git_only), stops at the first form that works, fails only when every
\* form it may try has failed, and never makes more than two attempts.
C14_HttpsThenSsh ==
    LET forms == IF op.git_only THEN <<"ssh">> ELSE <<"https", "ssh">>
        n == Len(op.attempts)
    IN op.name = "setup_repo" =>
       /\ n <= Len(forms) /\ n <= 2
       /\ \A i \in 1..n : op.attempts[i].url = forms[i]
       /\ \A i \in 1..(n - 1) : ~Succeeded(op.attempts[i])
       /\ Returned <=> (n > 0 /\ Succeeded(LastAttempt))
       /\ (op.pc = "done" /\ ~op.ok) <=>
             (n = Len(forms) /\ \A i \in 1..n : ~Succeeded(op.attempts[i]))

C14_Witness ==
    /\ ~op.git_only
    /\ Returned
    /\ op.attempts = <<[url |-> "https", out |-> "does not exist"],
                       [url |-> "ssh", out |-> "checked out"]>>
    /\ wc.remotes = {<<"pr_target_account", "target", "a">>, <<"pr_target_account", "target", "b">>}

\* C15: a requested branch that is absent among the fetched refs ends the
\* operation there: no checkout is attempted and the caller gets the
\* branch-not-found error as it was raised.
C15_BranchNotFoundIsFatal ==
    \A i \in 1..Len(op.attempts) :
        op.attempts[i].out = "branch not found" =>
            /\ i = Len(op.attempts)
            /\ op.pc = "done" /\ ~op.ok
            /\ op.err = "Branch not found"
            /\ Count(op.steps, "checkout") = 0

\* C16: when cloning from the configured local mirror fails, init_repo
\* ignores it, still initialises the repository and returns it.
C16_SeedFailureIgnored ==
    wc.seed = "clone failed" =>
        /\ wc.made
        /\ ~(op.pc = "done" /\ ~op.ok /\ op.err = "Failed to clone git repo")

\* C17: a failing step always ends the operation with its error, except for
\* a failed patch apply and a failed local-mirror seed; no failed remote
\* setup attempt and no refused forge request is followed by more work or
\* by a normal return.
C17_OnlyTwoSoftFallbacks ==
    /\ \A i \in 1..Len(op.attempts) :
          ~Succeeded(op.attempts[i]) => i = Len(op.attempts) /\ op.pc = "done" /\ ~op.ok
    /\ Has(op.steps, "labels:failed") => ~Returned
    /\ wc.seed = "clone failed" => wc.made /\ op.pc # "done"

MissingPath(paths) ==
    \/ \E e \in paths.easyconfigs : ~e.exists
    \/ \E fn \in paths.files_to_delete : ~InTree(StartTree, fn)

\* C18: when a path of any category of the change set does not exist, or
\* all categories are empty, _easyconfigs_pr_common fails before it makes a
\* working copy and before it contacts a remote.
C18_AllPathsValidatedFirst ==
    (op.name \in {"new_pr", "update_pr"} /\ (MissingPath(op.paths) \/ op.paths = NoPaths)) =>
        /\ ~wc.made
        /\ ~Has(op.steps, "init") /\ ~Has(op.steps, "remote") /\ ~Has(op.steps, "fetch")
        /\ ~Returned


\* ------------------------------------------------------------ eligibility
Evaluated == op.name = "check_pr_eligible_to_merge" /\ op.pc = "done"

\* The comments that can decide the test report criterion: the header and a
\* SUCCESS or FAILED marker.
Deciding(cs) == {i \in 1..Len(cs) : cs[i].header /\ (cs[i].success \/ cs[i].failed)}
MostRecent(S) == CHOOSE i \in S : \A j \in S : j <= i

\* C19: check_pr_eligible_to_merge returns true exactly when every
\* applicable criterion passes: base branch 'develop', last-commit status
\* 'success', for the easyconfigs repository a successful deciding test
\* report, at least one APPROVED review, and a milestone; a failed criterion
\* is never overridden by a later passing one, and the force flag plays no
\* part in the result.
C19_EligibleIffAllCriteriaPass ==
    Evaluated =>
        LET d == op.data
        IN op.ok <=>
              /\ d.base = "develop"
              /\ d.status = "success"
              /\ (d.repo = GITHUB_EASYCONFIGS_REPO =>
                     /\ Deciding(d.comments) # {}
                     /\ d.comments[MostRecent(Deciding(d.comments))].success)
              /\ \E k \in 1..Len(d.reviews) : d.reviews[k].state = "APPROVED"
              /\ d.milestone

\* Only the first criterion fails, every later one passes, force is set,
\* and the result is still false.
C19_Witness ==
    /\ Evaluated /\ ~op.ok /\ op.force
    /\ op.data.base # "develop" /\ op.data.status = "success"
    /\ op.data.repo = GITHUB_EASYCONFIGS_REPO
    /\ op.data.comments = <<SuccessReport>>
    /\ op.data.reviews = <<Approved("r1")>> /\ op.data.milestone

\* C20: the test report criterion is decided by the most recent comment
\* that carries the 'Test report by @...' header and a SUCCESS or FAILED
\* marker: it passes exactly when that comment is a SUCCESS report, older
\* reports do not count, and with no such comment it fails with a detail
\* other than the one of an explicit FAILED report.
C20_MostRecentReportDecides ==
    (Evaluated /\ op.data.repo = GITHUB_EASYCONFIGS_REPO) =>
        LET cs == op.data.comments
            r == op.report[3]
        IN /\ r.crit = "report"
           /\ IF Deciding(cs) = {}
              THEN ~r.pass /\ r.detail = "(no test reports found)" /\ r.detail # "FAILED"
              ELSE /\ r.pass <=> cs[MostRecent(Deciding(cs))].success
                   /\ r.detail = (IF r.pass THEN "OK" ELSE "FAILED")

\* An older SUCCESS report followed by a newer FAILED one: the criterion
\* fails with the explicit FAILED detail.
C20_Witness ==
    /\ Evaluated /\ op.data.repo = GITHUB_EASYCONFIGS_REPO
    /\ op.data.comments = <<SuccessReport, FailedReport>>
    /\ ~op.report[3].pass /\ op.report[3].detail = "FAILED"


\* The record evaluated in this state with one field replaced, and the
\* report entry of one criterion.
Entry(report, name) ==
    report[CHOOSE i \in 1..Len(report) : report[i].crit = name]
WithStatus(st) == check_pr_eligible_to_merge([op.data EXCEPT !.status = st]).report

\* C21 as stated: the status criterion passes only for 'success', and each
\* of pending, error, failure and an unknown value gets a detail text of
\* its own, different from the other three.
C21_FourDistinctDetails ==
    Evaluated =>
        /\ Entry(op.report, "status").pass <=> op.data.status = "success"
        /\ \A st \in {"pending", "error", "failure", "unknown"} \ {op.data.status} :
              op.data.status # "success" =>
                 Entry(WithStatus(st), "status").detail # Entry(op.report, "status").detail

\* C21 amended: the status criterion passes only for 'success'; pending is
\* reported as "pending...", error and failure share the detail "FAILED",
\* any other value is reported as "(result unknown)".
C21_StatusDetails ==
    Evaluated =>
        LET r == Entry(op.report, "status")
            st == op.data.status
        IN /\ r.pass <=> st = "success"
           /\ st = "success" => r.detail = "OK"
           /\ st = "pending" => r.detail = "pending..."
           /\ st \in {"error", "failure"} => r.detail = "FAILED"
           /\ st \notin {"success", "pending", "error", "failure"} =>
                 r.detail = "(result unknown)"

\* A record with status 'error': reported as FAILED, the same text its twin
\* with status 'failure' gets.
C21_Witness ==
    /\ Evaluated /\ op.data.status = "error"
    /\ ~Entry(op.report, "status").pass
    /\ Entry(op.report, "status").detail = "FAILED"
    /\ Entry(WithStatus("failure"), "status").detail = "FAILED"


\* C22: the review criterion passes exactly when some review of the record
\* has state APPROVED, wherever it stands in the list and whatever follows
\* it, and the report names every reviewer whose review is APPROVED.
C22_AnyApprovedReviewCounts ==
    Evaluated =>
        LET r == Entry(op.report, "review")
            rs == op.data.reviews
            approving == {k \in 1..Len(rs) : rs[k].state = "APPROVED"}
        IN /\ r.pass <=> approving # {}
           /\ Len(r.by) = Cardinality(approving)
           /\ \A k \in approving : \E i \in 1..Len(r.by) : r.by[i] = rs[k].user

\* An APPROVED review followed by a later review asking for changes.
C22_Witness ==
    /\ Evaluated
    /\ op.data.reviews = <<Approved("r2"), [state |-> "CHANGES_REQUESTED", user |-> "r1"]>>
    /\ Entry(op.report, "review").pass
    /\ Entry(op.report, "review").by = <<"r2">>


\* The evaluation of the record of this state with its milestone removed.
WithoutMilestone == check_pr_eligible_to_merge([op.data EXCEPT !.milestone = FALSE])
SameButMilestone(r1, r2) ==
    /\ Len(r1) = Len(r2)
    /\ \A i \in 1..Len(r1) : r1[i].crit # "milestone" => r1[i] = r2[i]
    /\ Entry(r1, "milestone").pass # Entry(r2, "milestone").pass

\* C23 as stated: for any PR record, removing the milestone flips the
\* milestone criterion and the overall result and leaves the outcome of
\* every other criterion as it was.
C23_MilestoneFlipsResult ==
    (Evaluated /\ op.data.milestone) =>
        /\ SameButMilestone(op.report, WithoutMilestone.report)
        /\ WithoutMilestone.res # op.ok

\* C23 amended: removing the milestone flips the milestone criterion, leaves
\* every other criterion as it was and makes the record ineligible; the
\* overall result flips exactly when every other criterion passes, and
\* stays false otherwise.
C23_MilestoneFlipsOwnCriterion ==
    (Evaluated /\ op.data.milestone) =>
        /\ SameButMilestone(op.report, WithoutMilestone.report)
        /\ ~WithoutMilestone.res
        /\ (WithoutMilestone.res # op.ok) <=>
              \A i \in 1..Len(op.report) :
                  op.report[i].crit # "milestone" => op.report[i].pass

\* An eligible record that loses its eligibility with its milestone.
C23_Witness ==
    /\ Evaluated /\ op.data.milestone /\ op.ok
    /\ ~WithoutMilestone.res
    /\ ~Entry(WithoutMilestone.report, "milestone").pass


MergeFetched == op.name = "merge_pr" /\ op.data # NoData
Sent(what) == Has(op.steps, what)

\* C25: merge_pr sends the merge request only if the run is not a dry run,
\* the PR author differs from the configured GitHub user, and the PR is
\* eligible or force is set. When the author is the configured user it fails
\* without comment or merge, even with force; when the PR is not eligible
\* and force is not set, neither a comment nor a merge request is sent.
C25_MergeOnlyThroughTheGate ==
    MergeFetched =>
        LET own == op.data.author = op.user
            eligible == check_pr_eligible_to_merge(op.data).res
            nothingSent == \A x \in {"comment", "merge", "dry:comment", "dry:merge"} : ~Sent(x)
        IN /\ Sent("merge") => (~DryRun /\ ~own /\ (eligible \/ op.force))
           /\ own => (nothingSent /\ (op.pc = "done" => ~op.ok))
           /\ (~eligible /\ ~op.force) => nothingSent

\* A forced merge of one's own PR has failed with nothing sent.
C25_Witness ==
    /\ MergeFetched /\ op.pc = "done" /\ ~op.ok
    /\ op.force /\ op.data.author = op.user
    /\ op.err = "Please do not merge your own PRs!"
    /\ ~Sent("comment") /\ ~Sent("merge")


\* -------------------------------------------------------- patch attribution
Attributed == op.name = "det_patch_specs" /\ op.pc = "done"
Lists(ec, patch_file) == patch_file \in ec.patches \/ patch_file \in ec.exts
FileOf(path) == IF path = "/p/a.patch" THEN "a.patch" ELSE path
KnownOwners(patch_file) ==
    {k \in 1..Len(op.data.ecs) : Lists(op.data.ecs[k], patch_file)}
\* the parseable recipes under the search roots that list the patch
\* (templates and source files are not recipes)
RecipeOwners(patch_file) ==
    {k \in 1..Len(op.data.ec_dirs) :
        LET f == op.data.ec_dirs[k]
        IN f.fn \notin {"TEMPLATE.eb", "x.py"} /\ f.parses /\ Lists(f.ec, patch_file)}

\* C26: for a patch file in the patch list of an already-known package
\* record the exhaustive scan is never run; a patch file absent from all
\* known records but listed by exactly one parseable recipe under the search
\* roots is attributed to that recipe's package name.
C26_KnownFirstThenScan ==
    Attributed =>
        \A i \in 1..Len(op.data.patch_paths) :
            LET path == op.data.patch_paths[i]
                known == KnownOwners(FileOf(path))
                onDisk == RecipeOwners(FileOf(path))
            IN /\ known # {} => \A k \in 1..Len(op.steps) : op.steps[k].patch # FileOf(path)
               /\ (known = {} /\ Cardinality(onDisk) = 1) =>
                     /\ op.err # path
                     /\ op.ok => op.report[i] =
                            <<path, op.data.ec_dirs[CHOOSE k \in onDisk : TRUE].ec.name>>

\* One patch found in the known record, the other only by the scan, in the
\* extension options of the single recipe that lists it.
C26_Witness ==
    /\ Attributed /\ op.ok
    /\ op.data.patch_paths = <<"/p/a.patch", "b.patch">>
    /\ KnownOwners("a.patch") # {} /\ KnownOwners("b.patch") = {}
    /\ Cardinality(RecipeOwners("b.patch")) = 1
    /\ Len(op.steps) = 1 /\ op.steps[1].patch = "b.patch"
    /\ op.report = <<<<"/p/a.patch", "toy">>, <<"b.patch", "gcc">>>>

\* C27: det_patch_specs returns exactly one (patch path, package name) pair
\* per input patch path, in input order, when every patch has an owner by
\* one of the two strategies; when some patch has no owner by either, it
\* fails with an error naming that patch file and returns no partial list.
C27_AllAttributedOrError ==
    Attributed =>
        LET paths == op.data.patch_paths
            owned(path) == KnownOwners(FileOf(path)) # {} \/ RecipeOwners(FileOf(path)) # {}
        IN IF \A i \in 1..Len(paths) : owned(paths[i])
           THEN /\ op.ok /\ Len(op.report) = Len(paths)
                /\ \A i \in 1..Len(paths) :
                      /\ op.report[i][1] = paths[i]
                      /\ \E ec \in {op.data.ecs[k] : k \in 1..Len(op.data.ecs)}
                               \cup {op.data.ec_dirs[k].ec : k \in 1..Len(op.data.ec_dirs)} :
                            ec.name = op.report[i][2] /\ Lists(ec, FileOf(paths[i]))
           ELSE /\ ~op.ok /\ op.report = <<>>
                /\ \E i \in 1..Len(paths) : op.err = paths[i] /\ ~owned(paths[i])

\* The first patch is attributed, the second has no owner: the call fails
\* naming the second and returns nothing.
C27_Witness ==
    /\ Attributed /\ ~op.ok /\ op.report = <<>>
    /\ Len(op.data.patch_paths) = 2
    /\ KnownOwners(FileOf(op.data.patch_paths[1])) # {}
    /\ op.err = op.data.patch_paths[2]


\* ------------------------------------------------------ reasons for closing
Inferred == op.name = "reasons_for_closing" /\ op.pc = "done"
NewerInTree(e) == \E t \in op.data.tree : t.name = e.name /\ t.version > e.version
KnownCodesOnce ==
    /\ \A i \in 1..Len(op.report) : op.report[i] \in {"inactive", "archived", "obsolete"}
    /\ \A i, j \in 1..Len(op.report) : op.report[i] = op.report[j] => i = j

\* C28 as stated: 'obsolete' is reported exactly when, for some recipe of
\* the pull request, a recipe of the same package with a strictly newer
\* version exists in the indexed tree; the codes are drawn from
\* {inactive, archived, obsolete}, each at most once.
C28_ObsoleteIffNewerVersion ==
    Inferred =>
        /\ Has(op.report, "obsolete") <=> \E e \in op.data.pr_files : NewerInTree(e)
        /\ KnownCodesOnce

\* C28 amended: 'obsolete' is reported exactly when some recipe of the pull
\* request has a strictly newer version of the same package in the indexed
\* tree and its package name occurs in the title of the pull request; the
\* codes are drawn from {inactive, archived, obsolete}, each at most once.
C28_ObsoleteIffNewerVersionAndInTitle ==
    Inferred =>
        /\ Has(op.report, "obsolete") <=>
              \E e \in op.data.pr_files : NewerInTree(e) /\ e.name \in op.data.title
        /\ KnownCodesOnce

\* A newer toy exists in the tree, the title does not name toy, and the
\* pull request is not reported obsolete.
C28_Witness ==
    /\ Inferred
    /\ \E e \in op.data.pr_files : e.name = "toy" /\ NewerInTree(e)
    /\ "toy" \notin op.data.title
    /\ ~Has(op.report, "obsolete")


\* ------------------------------------------------- dry run and real run
\* _easyconfigs_pr_common has committed
Committed == op.name \in {"new_pr", "update_pr"} /\ Has(op.steps, "commit")
CommitAt == CHOOSE i \in 1..Len(op.steps) : op.steps[i] = "commit"
\* The steps up to the commit as the inputs and the answers of the remote
\* give them, with the steps of an extended dry run in between.
StepsToCommit(extra) ==
    (IF op.name = "update_pr" THEN <<"get:pr">> ELSE <<>>)
    \o <<"init">>
    \o (IF Len(op.attempts) >= 1 THEN SetupSteps(op.attempts[1].out) ELSE <<>>)
    \o (IF Len(op.attempts) >= 2 THEN SetupSteps(op.attempts[2].out) ELSE <<>>)
    \o <<"copy", "branch", "stage">> \o extra \o <<"diff", "commit">>
\* What _easyconfigs_pr_common returns is given by the inputs alone, and
\* the push is the one step that tells a dry run from a real run.
SameValuesAndPush ==
    /\ wc.commits[Len(wc.commits)] =
          [branch |-> PrBranch(op), msg |-> IF op.msg # NoMsg THEN op.msg ELSE "adding easyconfigs",
           parent |-> {"fetched"},
           tree |-> RemoveFiles(WriteFiles(StartTree,
                                           {<<e.fn, e.content>> : e \in op.paths.easyconfigs}
                                           \cup {<<pf, "p1">> : pf \in op.paths.patch_files}),
                                op.paths.files_to_delete)]
    /\ op.deleted = op.paths.files_to_delete
    /\ Len(op.steps) >= CommitAt + 2 =>
          /\ op.steps[CommitAt + 1] = "create_remote"
          /\ op.steps[CommitAt + 2] = (IF DryRun THEN "dry:push" ELSE "push")

\* C29 as stated: for the same inputs and the same remote state a dry run
\* and a real run of _easyconfigs_pr_common execute the same sequence of
\* steps and return the same values, and differ only at the final push,
\* which the dry run replaces by a trace.
C29_DryRunSameStepsButPush ==
    Committed =>
        /\ SubSeq(op.steps, 1, CommitAt) = StepsToCommit(<<>>)
        /\ SameValuesAndPush

\* C29 amended: a plain dry run and a real run execute the same sequence
\* of steps and return the same values, and differ only at the final push,
\* which the dry run replaces by a trace; an extended dry run does the same
\* and in addition prints the full staged diff before the diff stat.
C29_DryRunSameStepsButPushAndFullDiff ==
    Committed =>
        /\ SubSeq(op.steps, 1, CommitAt) =
              StepsToCommit(IF opts.extended_dry_run THEN <<"full diff">> ELSE <<>>)
        /\ SameValuesAndPush

\* A plain dry run that went through every step and traced the push.
C29_Witness ==
    /\ Committed /\ opts.dry_run /\ ~opts.extended_dry_run
    /\ Has(op.steps, "dry:push") /\ ~Has(op.steps, "push")
    /\ ~Has(op.steps, "full diff")


\* ------------------------------------------- concurrent download_repo calls
SameKey(c, d) == c.root = d.root /\ c.branch = d.branch

\* C30: download_repo has no synchronisation around its check-then-fetch
\* sequence: whatever another invocation is doing, also on the same
\* (account, repo, branch) and destination root, an invocation's next step
\* can be taken; so one invocation can hold the snapshot path while another
\* downloads or extracts over that tree, and both can download the archive.
C30_NoStepWaitsForTheOther ==
    \A p \in Procs :
        /\ call[p].pc = "lookup" => ENABLED fetch_latest_commit_sha(p)
        /\ call[p].pc = "check" => ENABLED check_latest_sha(p)
        /\ call[p].pc = "download" => ENABLED download_archive(p)
        /\ call[p].pc = "extract" => ENABLED extract_archive(p)
        /\ call[p].pc = "write" => ENABLED write_latest_sha(p)

\* One invocation has downloaded and been handed the snapshot path; the
\* other, started before the first one returned, has downloaded the archive
\* too and is about to extract it over the tree the first one was handed.
C30_Witness ==
    \E p \in Procs, i \in 1..Len(log) :
        /\ log[i].proc # p /\ log[i].ok /\ log[i].downloaded /\ log[i].path # NoPath
        /\ SameKey(log[i], call[p])
        /\ call[p].pc = "extract" /\ call[p].downloaded
        /\ call[p].disk0[<<call[p].root, call[p].branch>>] # log[i].after
        /\ disk[<<call[p].root, call[p].branch>>].tree = log[i].after.tree


\* ------------------------------------------------------- names of remotes
\* the name the next create_remote of the operation would use with this salt
NextRemote(salt) ==
    IF op.pc = "setup_repo" THEN <<"pr_target_account", op.account, salt>>
    ELSE IF op.pc = "sync_merge" THEN <<"github", "target", salt>>
    ELSE <<"github", IF op.name = "new_pr" THEN "me" ELSE op.account, salt>>
Adding == op.pc \in {"setup_repo", "sync_merge", "push"}

\* C31 as stated: within one working copy, whatever salts are drawn, the
\* remotes added by setup_repo_from and by create_remote get pairwise
\* distinct names, so adding a remote never fails on a name clash.
C31_RemoteNamesNeverClash ==
    /\ Adding => \A salt \in Salts : NextRemote(salt) \notin wc.remotes
    /\ \A i \in 1..Len(op.attempts) : op.attempts[i].out # "remote exists"

\* C31 amended: a remote is never replaced, and a remote of setup_repo_from
\* never clashes with one of create_remote; two remotes of the same kind
\* for the same account clash exactly when they draw the same salt, and
\* then adding the second one fails: setup_repo ends with the git error at
\* its second URL form.
C31_RemoteClashOnlyOnEqualSalt ==
    /\ Cardinality(wc.remotes) = Count(op.steps, "remote") + Count(op.steps, "create_remote")
    /\ Adding =>
          \A salt \in Salts :
              NextRemote(salt) \in wc.remotes =>
                 \/ op.pc = "setup_repo" /\ op.attempt = 2
                 \/ op.pc = "push" /\ op.name = "sync_pr_with_develop" /\ op.account = "target"
    /\ \A i \in 1..Len(op.attempts) :
          op.attempts[i].out = "remote exists" =>
             /\ i = 2 /\ op.pc = "done" /\ ~op.ok /\ op.err = "GitCommandError"
             /\ Cardinality(wc.remotes) = 1

\* The second URL form drew the salt of the first: the remote exists.
C31_Witness ==
    /\ op.name = "new_pr" /\ op.pc = "done" /\ ~op.ok
    /\ Len(op.attempts) = 2 /\ op.attempts[2].out = "remote exists"
    /\ Cardinality(wc.remotes) = 1


\* --------------------------------------------------------- the patch scan
\* the candidates of the scan, in walk order
Candidates ==
    SelectSeq(op.data.ec_dirs,
              LAMBDA f : f.fn # "TEMPLATE.eb" /\ f.fn # "x.py" /\ f.txt)
Matches(f, patch_file) == f.parses /\ Lists(f.ec, patch_file)

\* C32: find_software_name_for_patch returns the package name of the first
\* candidate, in walk order, that parses and lists the patch; a candidate
\* that fails to parse is skipped without ending the scan, no candidate
\* after the first match is parsed, and the result is empty when no
\* candidate matches. Candidates are the files that are not TEMPLATE.eb, do
\* not end in '.py' and whose text contains 'patches'.
C32_ScanStopsAtFirstMatch ==
    Attributed =>
        \A k \in 1..Len(op.steps) :
            LET sc == op.steps[k]
                n == Len(sc.processed)
            IN /\ n <= Len(Candidates) /\ sc.processed = SubSeq(Candidates, 1, n)
               /\ \A i \in 1..(n - 1) : ~Matches(Candidates[i], sc.patch)
               /\ IF \E i \in 1..Len(Candidates) : Matches(Candidates[i], sc.patch)
                  THEN Matches(Candidates[n], sc.patch) /\ sc.soft_name = Candidates[n].ec.name
                  ELSE n = Len(Candidates) /\ sc.soft_name = ""

\* The scan skipped a recipe that lists the patch but does not parse, and
\* took the name from the next candidate.
C32_Witness ==
    /\ Attributed /\ op.ok /\ Len(op.steps) = 1
    /\ Len(Candidates) = 2
    /\ ~Candidates[1].parses /\ Lists(Candidates[1].ec, op.steps[1].patch)
    /\ Len(op.steps[1].processed) = 2
    /\ op.steps[1].soft_name = Candidates[2].ec.name


\* ------------------------------------------------------- branch histories
\* the fetched and pulled tips in the history of a local branch
HistoryOf(b) == {x[2] : x \in {y \in wc.hist : y[1] = b}}

\* C33: after sync_pr_with_develop succeeds in a run that is not a dry run,
\* the branch pushed to the account of the PR is the PR branch, and its
\* history holds the PR branch tip fetched from that account and the
\* develop tip pulled from the target account, also when the first
\* checkout fell back to the salted branch name.
C33_SyncPushesMergedPrBranch ==
    (op.name = "sync_pr_with_develop" /\ Returned /\ ~DryRun) =>
        /\ op.pushed = "pr_branch" /\ op.push = "ok"
        /\ wc.cur = "pr_branch"
        /\ {"fetched", "develop tip"} \subseteq HistoryOf("pr_branch")

\* The checkout fell back to the salted name because a local pr_branch was
\* there; what is pushed is that branch with both tips merged in.
C33_Witness ==
    /\ op.name = "sync_pr_with_develop" /\ Returned /\ ~DryRun
    /\ LastAttempt.out = "checked out salted"
    /\ op.pushed = "pr_branch"
    /\ HistoryOf("pr_branch") = {"stale", "fetched", "develop tip"}


\* C38: _easyconfigs_pr_common commits on and pushes the branch named
\* pr_branch, and the parent of the new commit is the tip of start_branch
\* as fetched from start_account, also when setup_repo_from fell back to
\* the salted branch name and a local branch named pr_branch was there.
C38_CommitOnPrBranchAtFetchedTip ==
    Committed =>
        LET c == wc.commits[Len(wc.commits)]
        IN /\ c.branch = PrBranch(op) /\ wc.cur = PrBranch(op)
           /\ c.parent = {"fetched"}
           /\ HistoryOf(PrBranch(op)) = {"fetched"}
           /\ Has(op.steps, "push") => op.pushed = PrBranch(op)

\* update_pr in a working copy seeded with a local pr_branch: the checkout
\* fell back to the salted name, and the commit pushed as pr_branch sits on
\* the fetched tip.
C38_Witness ==
    /\ Committed /\ op.name = "update_pr" /\ wc.seed = "cloned"
    /\ LastAttempt.out = "checked out salted"
    /\ "pr_branch_salt" \in wc.heads
    /\ wc.commits[Len(wc.commits)].parent = {"fetched"}
    /\ op.pushed = "pr_branch" /\ op.push = "ok"

\* C34: in a merge_pr that is not a dry run, every merge request is preceded
\* by the posted 'Going in' comment; a failed comment ends merge_pr without a
\* merge request; a refused merge request makes merge_pr fail with the
\* comment already on the pull request.
C34_CommentBeforeMerge ==
    (op.name = "merge_pr" /\ ~DryRun) =>
        /\ \A j \in 1..Len(op.steps) :
              op.steps[j] = "merge" => \E i \in 1..(j - 1) : op.steps[i] = "comment"
        /\ Sent("merge") => "comment" \in forge
        /\ op.err = "Failed to create comment" =>
              ~Sent("merge") /\ op.pc = "done" /\ ~op.ok
        /\ op.err = "FAILED" =>
              Sent("comment") /\ "comment" \in forge /\ op.pc = "done" /\ ~op.ok

C34_Witness ==
    /\ op.name = "merge_pr" /\ ~DryRun
    /\ op.err = "FAILED" /\ op.pc = "done" /\ ~op.ok
    /\ op.steps[Len(op.steps)] = "merge" /\ Sent("comment")
    /\ ~op.force

\* C35: a close_pr that finds the pull request already closed, or that has no
\* motivation and gets no reason from reasons_for_closing, sends no comment
\* and no state change, in a dry run or not, and ends with an error.
NoMutationSent == \A i \in 1..Len(op.steps) : op.steps[i] \notin Mutations \cup Traces

C35_ClosePrRefusesWithoutMutation ==
    op.name = "close_pr" =>
        /\ (op.pc \notin {"idle", "pr_data", "close_gate"} /\ op.data # NoData
              /\ op.data.state = GITHUB_STATE_CLOSED) =>
                 NoMutationSent /\ op.pc = "done" /\ ~op.ok /\ op.err = "already closed"
        /\ op.err = "No reason specified and none found" =>
              NoMutationSent /\ op.pc = "done" /\ ~op.ok /\ op.msg = NoMsg

C35_Witness ==
    /\ op.name = "close_pr" /\ op.pc = "done" /\ ~DryRun
    /\ op.err = "already closed" /\ op.data.state = GITHUB_STATE_CLOSED
    /\ op.msg = RETEST

C35_WitnessNoReason ==
    /\ op.name = "close_pr" /\ op.pc = "done" /\ ~DryRun
    /\ op.err = "No reason specified and none found" /\ Sent("get:reasons")

\* C36: in a close_pr that is not a dry run, the state change to closed is
\* sent only after the comment was posted, the state change back to open only
\* after the one to closed succeeded and only for the 'retest' motivation;
\* a failed step ends close_pr; a close_pr that returns has sent the
\* comment, the close and, exactly for 'retest', the reopen, and leaves the
\* pull request open for 'retest' and closed otherwise.
C36_ClosePrOrder ==
    (op.name = "close_pr" /\ ~DryRun) =>
        /\ Needs(op.steps, "close", "comment") /\ Needs(op.steps, "reopen", "close")
        /\ Sent("reopen") => op.msg = RETEST
        /\ op.err = "Failed to create comment" => ~Sent("close") /\ ~Sent("reopen")
        /\ op.err = "GitHub token must be available" => ~Sent("close") /\ ~Sent("reopen")
        /\ op.err = "Failed to close PR" => ~Sent("reopen")
        /\ op.err # "" => op.pc = "done" /\ ~op.ok
        /\ Returned =>
              /\ Sent("comment") /\ Sent("close")
              /\ Sent("reopen") <=> op.msg = RETEST
              /\ pr.state = IF op.msg = RETEST THEN GITHUB_PR_STATE_OPEN
                             ELSE GITHUB_STATE_CLOSED

C36_Witness ==
    /\ op.name = "close_pr" /\ ~DryRun /\ Returned
    /\ op.msg = RETEST /\ pr.state = GITHUB_PR_STATE_OPEN
    /\ op.steps = <<"get:pr", "comment", "close", "reopen">>

C36_WitnessClosed ==
    /\ op.name = "close_pr" /\ ~DryRun /\ Returned
    /\ op.msg = "obsolete" /\ pr.state = GITHUB_STATE_CLOSED
    /\ op.steps = <<"get:pr", "comment", "close">>

\* C37: after every download_repo call that returns having downloaded and
\* unpacked the archive, the SHA in the marker file is the commit of the tree
\* extracted next to it, also when the branch tip moved during the call.
C37_MarkerNamesExtractedTree ==
    \A i \in 1..Len(log) :
        (log[i].ok /\ log[i].wrote /\ log[i].unpacked)
            => ReadMarker(log[i].after.marker) = log[i].after.tree

\* C39 as stated: when _easyconfigs_pr_common fails for want of a commit
\* message, no branch has been created in the working copy and nothing has
\* been staged, committed or pushed.
MsgError == "A meaningful commit message must be specified"
NothingPublished ==
    /\ ~Sent("branch") /\ ~Sent("stage") /\ ~Sent("commit")
    /\ ~Sent("push") /\ ~Sent("dry:push")
    /\ wc.index = wc.base /\ wc.commits = <<>>

C39_NoBranchBeforeMessageFailure ==
    (op.name = "new_pr" /\ op.err = MsgError /\ wc.seed = "")
        => wc.heads = {} /\ NothingPublished

\* C39: a supplied commit message is the one committed; without one the
\* message is derived exactly when every copied easyconfig is new and no
\* file is to be deleted, and otherwise _easyconfigs_pr_common fails after
\* the start branch was checked out and the files were copied, but before the
\* PR branch is created and before anything is staged, committed or pushed;
\* update_pr without a commit message fails before any request is sent and
\* before a working copy is made.
C39_CommitMessage ==
    /\ op.name \in {"new_pr", "update_pr"} =>
          /\ op.commit_msg # NoMsg =>
                IF op.msg # NoMsg THEN op.commit_msg = op.msg
                ELSE op.all_new /\ op.paths.files_to_delete = {}
                     /\ op.commit_msg = "adding easyconfigs"
          /\ \A i \in 1..Len(wc.commits) :
                wc.commits[i].msg = op.commit_msg /\ op.commit_msg # NoMsg
          /\ (op.msg = NoMsg /\ Sent("copy")
                 /\ ~(op.all_new /\ op.paths.files_to_delete = {}))
                => op.pc = "done" /\ ~op.ok /\ op.err = MsgError
    /\ (op.name = "new_pr" /\ op.err = MsgError) =>
          /\ op.msg = NoMsg /\ ~(op.all_new /\ op.paths.files_to_delete = {})
          /\ PrBranch(op) \notin wc.heads /\ NothingPublished
          /\ Sent("copy") /\ wc.cur # "" /\ wc.cur \in wc.heads
    /\ (op.name = "update_pr" /\ op.msg = NoMsg) =>
          /\ op.pc = "done" /\ ~op.ok /\ op.err = MsgError
          /\ op.steps = <<>> /\ wc = NoWorkingCopy

C39_Witness ==
    /\ op.name = "new_pr" /\ op.err = MsgError /\ op.pc = "done"
    /\ wc.seed = "" /\ wc.heads = {GITHUB_DEVELOP_BRANCH}
    /\ wc.work # wc.base /\ NothingPublished

C39_WitnessDerived ==
    /\ op.name = "new_pr" /\ op.msg = NoMsg /\ Len(wc.commits) = 1
    /\ wc.commits[1].msg = "adding easyconfigs"

C39_WitnessUpdate ==
    op.name = "update_pr" /\ op.msg = NoMsg /\ op.err = MsgError

\* C40: when fetch_easyconfigs_from_pr has downloaded the files one by one
\* and returns, distinct paths of the diff were stored at distinct
\* destinations and the returned list holds no path twice.
C40_DistinctDestinations ==
    (fe.pc = "done" /\ fe.ok /\ fe.final = DestRoot) =>
        /\ \A i, j \in 1..Len(fe.patched) :
              i # j => LastThree(fe.patched[i]) # LastThree(fe.patched[j])
        /\ \A i, j \in 1..Len(fe.ec_files) :
              i # j => fe.ec_files[i] # fe.ec_files[j]

============================================================================
